---- MODULE Spec2Model ----
(***************************************************************************)
(* UltrAI orchestration pipeline (src/ultrai): one run of the background   *)
(* task _orchestrate_pipeline, from start_run to completion or error.txt. *)
(* Stages: readiness (00), inputs (01), activation (02), R1 (03), R2 (04), *)
(* R3 (05), statistics.  A gateway call is one step whose outcome (a      *)
(* returned record or a raised exception) is chosen by the environment.   *)
(* Python lists are 0-based, the sequences here are 1-based: slot i of    *)
(* the model is index i-1 of the code.                                     *)
(***************************************************************************)
EXTENDS Integers, Sequences, FiniteSets, TLC

\* ------------------------------------------------------------------------
\* Bounds of the model
\* ------------------------------------------------------------------------

\* number of gateway calls of one run that the environment lets fail
MaxFaults == 4

\* ------------------------------------------------------------------------
\* Program constants
\* ------------------------------------------------------------------------

PRIMARY_MODELS ==
  [ LUXE    |-> << "openai/gpt-4o", "anthropic/claude-sonnet-4.5",
                   "google/gemini-2.0-flash-exp:free" >>,
    PREMIUM |-> << "anthropic/claude-3.7-sonnet", "openai/gpt-4o",
                   "google/gemini-2.5-pro" >>,
    SPEEDY  |-> << "openai/gpt-4o-mini", "anthropic/claude-3-haiku",
                   "x-ai/grok-3-mini" >>,
    BUDGET  |-> << "openai/gpt-3.5-turbo", "google/gemini-2.0-flash-exp:free",
                   "qwen/qwen-2.5-72b-instruct" >>,
    DEPTH   |-> << "anthropic/claude-3.7-sonnet", "openai/gpt-4o",
                   "meta-llama/llama-3.3-70b-instruct" >> ]

\* variant: the first LUXE fallback repeats the LUXE primary it stands for
FALLBACK_MODELS_shared ==
  [ LUXE    |-> << "openai/gpt-4o", "anthropic/claude-3.7-sonnet",
                   "google/gemini-2.5-pro" >>,
    PREMIUM |-> << "x-ai/grok-3", "openai/chatgpt-4o-latest",
                   "meta-llama/llama-3.3-70b-instruct" >>,
    SPEEDY  |-> << "google/gemini-2.0-flash-exp:free",
                   "qwen/qwen-2.5-72b-instruct",
                   "meta-llama/llama-3.3-70b-instruct" >>,
    BUDGET  |-> << "meta-llama/llama-3.3-70b-instruct", "openai/gpt-4o-mini",
                   "anthropic/claude-3-haiku" >>,
    DEPTH   |-> << "openai/chatgpt-4o-latest", "anthropic/claude-sonnet-4.5",
                   "google/gemini-2.0-flash-exp:free" >> ]

FALLBACK_MODELS ==
  [ LUXE    |-> << "openai/chatgpt-4o-latest", "anthropic/claude-3.7-sonnet",
                   "google/gemini-2.5-pro" >>,
    PREMIUM |-> << "x-ai/grok-3", "openai/chatgpt-4o-latest",
                   "meta-llama/llama-3.3-70b-instruct" >>,
    SPEEDY  |-> << "google/gemini-2.0-flash-exp:free",
                   "qwen/qwen-2.5-72b-instruct",
                   "meta-llama/llama-3.3-70b-instruct" >>,
    BUDGET  |-> << "meta-llama/llama-3.3-70b-instruct", "openai/gpt-4o-mini",
                   "anthropic/claude-3-haiku" >>,
    DEPTH   |-> << "openai/chatgpt-4o-latest", "anthropic/claude-sonnet-4.5",
                   "google/gemini-2.0-flash-exp:free" >> ]

COCKTAIL_MODELS == PRIMARY_MODELS
BACKUP_MODELS == FALLBACK_MODELS

QUORUM == 2

\* variant: the slot check compares against the quorum
RequiredSlots_quorum == QUORUM

\* len(resolved_primary) < 3 in prepare_active_llms
RequiredSlots == 3

\* variant: R2 accepts a single successful model
MetaMinimum_one == QUORUM - 1

\* len(active_list) < 2 in execute_meta_round
MetaMinimum == 2

\* len(active_list) < 2 in execute_initial_round
InitialMinimum == 2

\* len(ready_models) < 2 in check_system_readiness
ReadyMinimum == 2

PREFERRED_ULTRA ==
  << "anthropic/claude-3.7-sonnet", "openai/gpt-4o",
     "google/gemini-2.0-flash-thinking-exp:free",
     "meta-llama/llama-3.3-70b-instruct" >>

\* the cocktail names start_run accepts
ValidCocktails == {"LUXE", "PREMIUM", "SPEEDY", "BUDGET", "DEPTH"}

\* a model the gateway lists that belongs to no cocktail
OtherModel == "other/model"

NoModel == "<none>"

\* ------------------------------------------------------------------------
\* Helpers on sequences
\* ------------------------------------------------------------------------

Range(s) == { s[i] : i \in DOMAIN s }

RECURSIVE FilterSeq(_, _)
\* [m for m in s if m in keep]
FilterSeq(s, keep) ==
  IF s = << >> THEN << >>
  ELSE IF Head(s) \in keep THEN << Head(s) >> \o FilterSeq(Tail(s), keep)
       ELSE FilterSeq(Tail(s), keep)

\* next((m for m in pool if m not in chosen), None)
FirstNotIn(pool, chosen) ==
  LET rest == FilterSeq(pool, Range(pool) \ Range(chosen))
  IN IF rest = << >> THEN NoModel ELSE Head(rest)

\* ------------------------------------------------------------------------
\* Activation: prepare_active_llms
\* ------------------------------------------------------------------------

CocktailUnion(c) == Range(PRIMARY_MODELS[c]) \cup Range(FALLBACK_MODELS[c])

\* variant: the helper pool is not restricted to READY models
ready_pool_unfiltered(c, ready_set) ==
  COCKTAIL_MODELS[c] \o BACKUP_MODELS[c]

ready_pool(c, ready_set) ==
  FilterSeq(COCKTAIL_MODELS[c] \o BACKUP_MODELS[c], ready_set)

\* variant: the reason of a replaced slot names the PRIMARY it replaces
SetReason_names_primary(reasons, primary_model, r) ==
  [ m \in DOMAIN reasons \cup {primary_model} |->
      IF m = primary_model
      THEN [ kind |-> r.kind,
             model |-> IF r.model = NoModel THEN NoModel ELSE primary_model ]
      ELSE reasons[m] ]

SetReason(reasons, primary_model, r) ==
  [ m \in DOMAIN reasons \cup {primary_model} |->
      IF m = primary_model THEN r ELSE reasons[m] ]

\* variant: a slot is filled by its PRIMARY or its aligned FALLBACK only
ResolveSlot_aligned_only(c, ready_set, idx, st) ==
  LET primary_model  == COCKTAIL_MODELS[c][idx]
      fallback_model == BACKUP_MODELS[c][idx]
      chosen         == Range(st.resolved_primary)
  IN IF primary_model \in ready_set /\ primary_model \notin chosen
     THEN [ resolved_primary |-> Append(st.resolved_primary, primary_model),
            reasons |-> SetReason(st.reasons, primary_model,
                          [kind |-> "PRIMARY_READY", model |-> NoModel]) ]
     ELSE IF fallback_model \in ready_set /\ fallback_model \notin chosen
     THEN [ resolved_primary |-> Append(st.resolved_primary, fallback_model),
            reasons |-> SetReason(st.reasons, primary_model,
                          [kind |-> "REPLACED_FALLBACK",
                           model |-> fallback_model]) ]
     ELSE [ resolved_primary |-> st.resolved_primary,
            reasons |-> SetReason(st.reasons, primary_model,
                          [kind |-> "NOT READY_NO_REPLACEMENT",
                           model |-> NoModel]) ]

\* one iteration of the loop "for idx, primary_model in enumerate(...)"
ResolveSlot(c, ready_set, idx, st) ==
  LET primary_model  == COCKTAIL_MODELS[c][idx]
      fallback_model == IF idx <= Len(BACKUP_MODELS[c])
                        THEN BACKUP_MODELS[c][idx] ELSE NoModel
      chosen         == Range(st.resolved_primary)
      alternate      == FirstNotIn(ready_pool(c, ready_set),
                                   st.resolved_primary)
  IN IF primary_model \in ready_set /\ primary_model \notin chosen
     THEN [ resolved_primary |-> Append(st.resolved_primary, primary_model),
            reasons |-> SetReason(st.reasons, primary_model,
                          [kind |-> "PRIMARY_READY", model |-> NoModel]) ]
     ELSE IF fallback_model # NoModel /\ fallback_model \in ready_set
             /\ fallback_model \notin chosen
     THEN [ resolved_primary |-> Append(st.resolved_primary, fallback_model),
            reasons |-> SetReason(st.reasons, primary_model,
                          [kind |-> "REPLACED_FALLBACK",
                           model |-> fallback_model]) ]
     ELSE IF alternate # NoModel
     THEN [ resolved_primary |-> Append(st.resolved_primary, alternate),
            reasons |-> SetReason(st.reasons, primary_model,
                          [kind |-> "REPLACED_ALT", model |-> alternate]) ]
     ELSE [ resolved_primary |-> st.resolved_primary,
            reasons |-> SetReason(st.reasons, primary_model,
                          [kind |-> "NOT READY_NO_REPLACEMENT",
                           model |-> NoModel]) ]

RECURSIVE ResolveFrom(_, _, _, _)
ResolveFrom(c, ready_set, idx, st) ==
  IF idx > Len(COCKTAIL_MODELS[c]) THEN st
  ELSE ResolveFrom(c, ready_set, idx + 1, ResolveSlot(c, ready_set, idx, st))

Resolve(c, ready_set) ==
  ResolveFrom(c, ready_set, 1,
              [resolved_primary |-> << >>, reasons |-> << >>])

\* active_list = resolved_primary[:3]
active_list_of(resolved_primary) ==
  SubSeq(resolved_primary, 1,
         IF Len(resolved_primary) < 3 THEN Len(resolved_primary) ELSE 3)

\* variant: the backups already placed in activeList are not removed
backup_list_keeping_active(c, ready_set, active_list) ==
  FilterSeq(BACKUP_MODELS[c], ready_set)

\* backup_list = [m for m in backup_models if m in ready_set
\*                                          and m not in active_list]
backup_list_of(c, ready_set, active_list) ==
  FilterSeq(BACKUP_MODELS[c], ready_set \ Range(active_list))


\* ------------------------------------------------------------------------
\* State
\* ------------------------------------------------------------------------

VARIABLES
  pc,               \* position of _orchestrate_pipeline
  cocktail,         \* the cocktail start_run was given
  files,            \* names of the files present in runs/<run_id>/
  ready_list,       \* readyList of 00_ready.json
  activate,         \* content of 02_activate.json
  slot,             \* R1: where each process_primary task is
  responses,        \* R1: the list "responses" of _execute_parallel_queries
  failed_models,    \* R1: the list "failed_models"
  completed_count,  \* R1: the counter "completed_count"
  backup_requested, \* R1: the model each slot requested as its backup
  initial,          \* content of 03_initial.json
  meta_active,      \* R2: active_list of execute_meta_round
  gathered,         \* R2: result of each task of _execute_parallel_meta
  meta_requests,    \* R2: the models a request was issued for
  meta,             \* content of 04_meta.json
  ultrai,           \* content of 05_ultrai.json
  error,            \* the exception the orchestrator caught ("" if none)
  faults,           \* gateway calls that failed so far
  gateway_errors,   \* << round, kind >> of the exceptions that the model
                    \* calls of the latest round raised
  call_site,        \* one gateway call: the call site that issues it
  call_pc,          \* one gateway call: where its retry loop is
  attempt,          \* one gateway call: the loop variable "attempt"
  sleeps,           \* one gateway call: the asyncio.sleep calls made so far
  call_error,       \* one gateway call: the kind of exception it raised
  now,              \* API server: datetime.now(), in whole seconds
  run_dirs,         \* API server: the files of every directory under runs/
  tasks,            \* API server: the pipeline tasks create_task scheduled
  progress_tracker, \* API server: the run ids of the dict progress_tracker
  last_response,    \* API server: the answer to the latest POST /runs
  fn_args,          \* one function call: the arguments it was given
  fn_return,        \* one function call: what it returned or raised
  round_args,       \* one round: the executor that runs and its arguments
  semaphore,        \* one round: the asyncio.Semaphore of the executor
  worker,           \* one round: where each model's task is
  round_completed,  \* one round: the completed counter of the executor
  callbacks,        \* one round: the calls of progress_callback so far
  steps,            \* one round: the per-model steps of progress_tracker
  disk,             \* artifact store: what each artifact file holds
  writing,          \* artifact store: the file a stage has open for writing
  served,           \* artifact store: what the latest GET request observed
  max_bytes,        \* event log: PROD_LOG_MAX_BYTES
  events_log,       \* event log: the lines of events.log
  events_rotated,   \* event log: the lines of events.1.log
  emitted,          \* event log: the number of _write_event calls so far
  position,         \* progress: the tracker updates the orchestrator made
  progress_pc,      \* progress: whether the orchestrator runs, failed, ended
  percentage,       \* progress: progress_tracker[run_id]["percentage"]
  callback_total,   \* progress: "total" of the running round's callbacks
  callback_count,   \* progress: "completed" of the latest callback
  updates           \* progress: the percentage of each _update_progress call

\* one gateway call with its retries
callvars == << call_site, call_pc, attempt, sleeps, call_error >>

\* the API server across runs
apivars == << now, run_dirs, tasks, progress_tracker, last_response >>

\* one run of the pipeline
runvars == << pc, cocktail, files, ready_list, activate, slot, responses,
              failed_models, completed_count, backup_requested, initial,
              meta_active, gathered, meta_requests, meta, ultrai, error,
              faults, gateway_errors >>

\* one call of a function of the program
fnvars == << fn_args, fn_return >>

\* one round (R1 or R2) with its tasks
roundvars == << round_args, semaphore, worker, round_completed, callbacks,
               steps >>

\* the artifact files of one run and the requests that read them
storevars == << disk, writing, served >>

\* the event log of one run
logvars == << max_bytes, events_log, events_rotated, emitted >>

\* the overall percentage of one run
progressvars == << position, progress_pc, percentage, callback_total,
                  callback_count, updates >>

servervars == << storevars, logvars, progressvars >>

vars == << runvars, callvars, apivars, fnvars, roundvars, servervars >>

r1vars == << slot, responses, failed_models, completed_count,
             backup_requested, initial >>
r2vars == << meta_active, gathered, meta_requests, meta >>

NoActivate == [ activeList |-> << >>, backupList |-> << >>,
                reasons |-> << >> ]
NoUltrai == [ model |-> NoModel, active_count |-> 0, meta_count |-> 0 ]
NoCall == [ fn |-> "" ]
NoRound == [ round |-> "" ]
NoResponse == [ status |-> 0, detail |-> "", run_id |-> << >>, request |-> 0 ]

Init ==
  /\ pc = "idle"
  /\ cocktail = ""
  /\ files = {}
  /\ ready_list = {}
  /\ activate = NoActivate
  /\ slot = << >>
  /\ responses = << >>
  /\ failed_models = << >>
  /\ completed_count = 0
  /\ backup_requested = << >>
  /\ initial = << >>
  /\ meta_active = << >>
  /\ gathered = << >>
  /\ meta_requests = {}
  /\ meta = << >>
  /\ ultrai = NoUltrai
  /\ error = ""
  /\ faults = 0
  /\ gateway_errors = {}
  /\ call_site = ""
  /\ call_pc = "idle"
  /\ attempt = 0
  /\ sleeps = << >>
  /\ call_error = ""
  /\ now = 0
  /\ run_dirs = << >>
  /\ tasks = << >>
  /\ progress_tracker = {}
  /\ last_response = NoResponse
  /\ fn_args = NoCall
  /\ fn_return = << >>
  /\ round_args = NoRound
  /\ semaphore = [ limit |-> 0, value |-> 0 ]
  /\ worker = << >>
  /\ round_completed = 0
  /\ callbacks = << >>
  /\ steps = << >>
  /\ disk = << >>
  /\ writing = ""
  /\ served = NoCall
  /\ max_bytes = 0
  /\ events_log = << >>
  /\ events_rotated = << >>
  /\ emitted = 0
  /\ position = 0
  /\ progress_pc = "idle"
  /\ percentage = 0
  /\ callback_total = 0
  /\ callback_count = 0
  /\ updates = << >>

\* ------------------------------------------------------------------------
\* Orchestrator: the "except Exception" handler of _orchestrate_pipeline
\* ------------------------------------------------------------------------

\* variant: the handler records the error and the task goes on
Raise_keeps_running(kind) ==
  /\ error' = kind
  /\ files' = files \cup {"error.txt"}
  /\ UNCHANGED pc

\* a stage raised: error.txt is written and the task ends
Raise(kind) ==
  /\ pc' = "failed"
  /\ error' = kind
  /\ files' = files \cup {"error.txt"}

\* ------------------------------------------------------------------------
\* start_run
\* ------------------------------------------------------------------------

\* variant: the pipeline starts at collect_user_inputs
StartRun_skips_readiness(c) ==
  /\ pc = "idle"
  /\ c \in ValidCocktails
  /\ cocktail' = c
  /\ files' = files \cup {"events.log"}
  /\ pc' = "inputs"
  /\ UNCHANGED << ready_list, activate, r1vars, r2vars, ultrai, error,
                  faults >>
  /\ UNCHANGED << gateway_errors, callvars, apivars, fnvars,
                  roundvars, servervars >>

StartRun(c) ==
  /\ pc = "idle"
  /\ c \in ValidCocktails
  /\ cocktail' = c
  /\ files' = files \cup {"events.log"}
  /\ pc' = "readiness"
  /\ UNCHANGED << ready_list, activate, r1vars, r2vars, ultrai, error,
                  faults >>
  /\ UNCHANGED << gateway_errors, callvars, apivars, fnvars,
                  roundvars, servervars >>

\* ------------------------------------------------------------------------
\* check_system_readiness
\* ------------------------------------------------------------------------

\* the model lists the gateway may return, seen from the run's cocktail
ReadyChoices(c) ==
  IF c \in ValidCocktails
  THEN { S \cup {OtherModel} : S \in SUBSET CocktailUnion(c) }
  ELSE {}

CheckSystemReadiness(ready_models) ==
  /\ pc = "readiness"
  /\ ready_models \in ReadyChoices(cocktail)
  /\ IF Cardinality(ready_models) < ReadyMinimum
     THEN /\ Raise("SystemReadinessError")
          /\ UNCHANGED ready_list
     ELSE /\ ready_list' = ready_models
          /\ files' = files \cup {"00_ready.json"}
          /\ pc' = "inputs"
          /\ UNCHANGED error
  /\ UNCHANGED << cocktail, activate, r1vars, r2vars, ultrai, faults >>
  /\ UNCHANGED << gateway_errors, callvars, apivars, fnvars,
                  roundvars, servervars >>

\* the gateway call failed on every attempt
ReadinessGatewayFails ==
  /\ pc = "readiness"
  /\ faults < MaxFaults
  /\ faults' = faults + 1
  /\ Raise("SystemReadinessError")
  /\ UNCHANGED << cocktail, ready_list, activate, r1vars, r2vars, ultrai >>
  /\ UNCHANGED << gateway_errors, callvars, apivars, fnvars,
                  roundvars, servervars >>

\* ------------------------------------------------------------------------
\* collect_user_inputs
\* ------------------------------------------------------------------------

CollectUserInputs ==
  /\ pc = "inputs"
  /\ IF cocktail \notin ValidCocktails
     THEN Raise("UserInputError")
     ELSE /\ files' = files \cup {"01_inputs.json"}
          /\ pc' = "activate"
          /\ UNCHANGED error
  /\ UNCHANGED << cocktail, ready_list, activate, r1vars, r2vars, ultrai,
                  faults >>
  /\ UNCHANGED << gateway_errors, callvars, apivars, fnvars,
                  roundvars, servervars >>

\* ------------------------------------------------------------------------
\* prepare_active_llms
\* ------------------------------------------------------------------------

PrepareActiveLLMs ==
  /\ pc = "activate"
  /\ LET resolved    == Resolve(cocktail, ready_list)
         active_list == active_list_of(resolved.resolved_primary)
         backup_list == backup_list_of(cocktail, ready_list, active_list)
     IN IF \/ "00_ready.json" \notin files
           \/ "01_inputs.json" \notin files
           \/ cocktail \notin DOMAIN COCKTAIL_MODELS
           \/ Len(resolved.resolved_primary) < RequiredSlots
           \/ Len(active_list) < QUORUM
        THEN /\ Raise("ActiveLLMError")
             /\ UNCHANGED activate
        ELSE /\ activate' = [ activeList |-> active_list,
                              backupList |-> backup_list,
                              reasons |-> resolved.reasons ]
             /\ files' = files \cup {"02_activate.json"}
             /\ pc' = "r1"
             /\ UNCHANGED error
  /\ UNCHANGED << cocktail, ready_list, r1vars, r2vars, ultrai, faults >>
  /\ UNCHANGED << gateway_errors, callvars, apivars, fnvars,
                  roundvars, servervars >>


\* ------------------------------------------------------------------------
\* R1: execute_initial_round, _execute_parallel_queries, process_primary
\* ------------------------------------------------------------------------

\* what a model call raises, after its own retries: the answer to a 401 or
\* 402 response, or the exhaustion of its attempts on a timeout, a 429, a
\* 5xx or a malformed answer
CallErrors == {"credential", "transient"}

\* where a process_primary task can be: awaiting its primary, awaiting its
\* backup, or returned after its primary's record, its backup's record or
\* an error record
SlotDone == {"ok", "backup_ok", "error"}

InitialOk(model) == [ round |-> "INITIAL", model |-> model, error |-> FALSE ]
InitialError(model) == [ round |-> "INITIAL", model |-> model, error |-> TRUE ]

\* the checks of execute_initial_round, then one task per entry of activeList
InitialStart ==
  /\ pc = "r1"
  /\ IF \/ "02_activate.json" \notin files
        \/ Len(activate.activeList) < InitialMinimum
        \/ "01_inputs.json" \notin files
     THEN /\ Raise("InitialRoundError")
          /\ UNCHANGED << slot, backup_requested >>
     ELSE /\ slot' = [ i \in DOMAIN activate.activeList |-> "primary" ]
          /\ backup_requested' =
               [ i \in DOMAIN activate.activeList |-> NoModel ]
          /\ pc' = "r1_run"
          /\ UNCHANGED << files, error >>
  /\ UNCHANGED << cocktail, ready_list, activate, responses, failed_models,
                  completed_count, initial, r2vars, ultrai, faults >>
  /\ UNCHANGED << gateway_errors, callvars, apivars, fnvars,
                  roundvars, servervars >>

\* backup_model = backups[index] if index < len(backups) else None
backup_model_of(backups, index) ==
  IF index <= Len(backups) THEN backups[index] ELSE NoModel

\* variant: the failure bookkeeping also runs when the primary answered
PrimaryReturns_marks_failed(i) ==
  /\ pc = "r1_run"
  /\ i \in DOMAIN slot
  /\ slot[i] = "primary"
  /\ responses' = Append(responses, InitialOk(activate.activeList[i]))
  /\ failed_models' = Append(failed_models, activate.activeList[i])
  /\ completed_count' = completed_count + 1
  /\ slot' = [slot EXCEPT ![i] = "ok"]
  /\ UNCHANGED << pc, cocktail, files, ready_list, activate,
                  backup_requested, initial, r2vars, ultrai, error, faults >>
  /\ UNCHANGED << gateway_errors, callvars, apivars, fnvars,
                  roundvars, servervars >>

\* _query_single_model(model) returned a record
PrimaryReturns(i) ==
  /\ pc = "r1_run"
  /\ i \in DOMAIN slot
  /\ slot[i] = "primary"
  /\ responses' = Append(responses, InitialOk(activate.activeList[i]))
  /\ completed_count' = completed_count + 1
  /\ slot' = [slot EXCEPT ![i] = "ok"]
  /\ UNCHANGED << pc, cocktail, files, ready_list, activate, failed_models,
                  backup_requested, initial, r2vars, ultrai, error, faults >>
  /\ UNCHANGED << gateway_errors, callvars, apivars, fnvars,
                  roundvars, servervars >>

\* _query_single_model(model) raised: the "except Exception" branch up to
\* the await of the backup request, or up to the error record
PrimaryRaises(i, kind) ==
  /\ pc = "r1_run"
  /\ i \in DOMAIN slot
  /\ slot[i] = "primary"
  /\ faults < MaxFaults
  /\ faults' = faults + 1
  /\ gateway_errors' = gateway_errors \cup { << "R1", kind >> }
  /\ failed_models' = Append(failed_models, activate.activeList[i])
  /\ LET backup_model == backup_model_of(activate.backupList, i)
     IN IF backup_model # NoModel
        THEN /\ backup_requested' = [backup_requested EXCEPT ![i] = backup_model]
             /\ slot' = [slot EXCEPT ![i] = "backup"]
             /\ UNCHANGED << responses, completed_count >>
        ELSE /\ responses' =
                  Append(responses, InitialError(activate.activeList[i]))
             /\ completed_count' = completed_count + 1
             /\ slot' = [slot EXCEPT ![i] = "error"]
             /\ UNCHANGED backup_requested
  /\ UNCHANGED << pc, cocktail, files, ready_list, activate, initial, r2vars,
                  ultrai, error >>
  /\ UNCHANGED << callvars, apivars, fnvars, roundvars, servervars >>

\* variant: the backup's answer is recorded under the primary's id
BackupReturns_under_primary(i) ==
  /\ pc = "r1_run"
  /\ i \in DOMAIN slot
  /\ slot[i] = "backup"
  /\ responses' = Append(responses, InitialOk(activate.activeList[i]))
  /\ completed_count' = completed_count + 1
  /\ slot' = [slot EXCEPT ![i] = "backup_ok"]
  /\ UNCHANGED << pc, cocktail, files, ready_list, activate, failed_models,
                  backup_requested, initial, r2vars, ultrai, error, faults >>
  /\ UNCHANGED << gateway_errors, callvars, apivars, fnvars,
                  roundvars, servervars >>

\* _query_single_model(backup_model) returned a record
BackupReturns(i) ==
  /\ pc = "r1_run"
  /\ i \in DOMAIN slot
  /\ slot[i] = "backup"
  /\ responses' = Append(responses, InitialOk(backup_requested[i]))
  /\ completed_count' = completed_count + 1
  /\ slot' = [slot EXCEPT ![i] = "backup_ok"]
  /\ UNCHANGED << pc, cocktail, files, ready_list, activate, failed_models,
                  backup_requested, initial, r2vars, ultrai, error, faults >>
  /\ UNCHANGED << gateway_errors, callvars, apivars, fnvars,
                  roundvars, servervars >>

\* _query_single_model(backup_model) raised
BackupRaises(i, kind) ==
  /\ pc = "r1_run"
  /\ i \in DOMAIN slot
  /\ slot[i] = "backup"
  /\ faults < MaxFaults
  /\ faults' = faults + 1
  /\ gateway_errors' = gateway_errors \cup { << "R1", kind >> }
  /\ responses' = Append(responses, InitialError(activate.activeList[i]))
  /\ completed_count' = completed_count + 1
  /\ slot' = [slot EXCEPT ![i] = "error"]
  /\ UNCHANGED << pc, cocktail, files, ready_list, activate, failed_models,
                  backup_requested, initial, r2vars, ultrai, error >>
  /\ UNCHANGED << callvars, apivars, fnvars, roundvars, servervars >>

\* asyncio.gather returned: 03_initial.json and 03_initial_status.json
InitialFinish ==
  /\ pc = "r1_run"
  /\ \A i \in DOMAIN slot : slot[i] \in SlotDone
  /\ initial' = responses
  /\ files' = files \cup {"03_initial.json", "03_initial_status.json"}
  /\ pc' = "r2"
  /\ UNCHANGED << cocktail, ready_list, activate, slot, responses,
                  failed_models, completed_count, backup_requested, r2vars,
                  ultrai, error, faults >>
  /\ UNCHANGED << gateway_errors, callvars, apivars, fnvars,
                  roundvars, servervars >>

\* ------------------------------------------------------------------------
\* R2: execute_meta_round, _execute_parallel_meta
\* ------------------------------------------------------------------------

MetaOk(model) == [ round |-> "META", model |-> model, error |-> FALSE ]
MetaError(model) == [ round |-> "META", model |-> model, error |-> TRUE ]

\* [draft.get("model") for draft in initial_drafts if not draft.get("error")]
RECURSIVE SucceededModels(_)
SucceededModels(drafts) ==
  IF drafts = << >> THEN << >>
  ELSE IF ~ Head(drafts).error
       THEN << Head(drafts).model >> \o SucceededModels(Tail(drafts))
       ELSE SucceededModels(Tail(drafts))

RECURSIVE AllModels(_)
AllModels(drafts) ==
  IF drafts = << >> THEN << >>
  ELSE << Head(drafts).model >> \o AllModels(Tail(drafts))

\* variant: the R2 membership keeps the models of error records
meta_active_list_unfiltered(initial_drafts) == AllModels(initial_drafts)

\* the R2 membership computed by execute_meta_round
meta_active_list(initial_drafts) == SucceededModels(initial_drafts)

\* the checks of execute_meta_round, then one task per member
MetaStart ==
  /\ pc = "r2"
  /\ LET active_list == meta_active_list(initial)
     IN IF \/ "01_inputs.json" \notin files
           \/ "03_initial.json" \notin files
           \/ Len(active_list) < MetaMinimum
           \/ Len(initial) = 0
        THEN /\ Raise("MetaRoundError")
             /\ UNCHANGED << meta_active, gathered, meta_requests >>
        ELSE /\ meta_active' = active_list
             /\ gathered' = [ i \in DOMAIN active_list |-> "pending" ]
             /\ meta_requests' = Range(active_list)
             /\ pc' = "r2_run"
             /\ UNCHANGED << files, error >>
  /\ gateway_errors' = {}
  /\ UNCHANGED << cocktail, ready_list, activate, r1vars, meta, ultrai,
                  faults >>
  /\ UNCHANGED << callvars, apivars, fnvars, roundvars, servervars >>

\* _query_meta_single returned a record
MetaTaskReturns(i) ==
  /\ pc = "r2_run"
  /\ i \in DOMAIN gathered
  /\ gathered[i] = "pending"
  /\ gathered' = [gathered EXCEPT ![i] = "result"]
  /\ UNCHANGED << pc, cocktail, files, ready_list, activate, r1vars,
                  meta_active, meta_requests, meta, ultrai, error, faults >>
  /\ UNCHANGED << gateway_errors, callvars, apivars, fnvars,
                  roundvars, servervars >>

\* _query_meta_single raised: gather(return_exceptions=True) keeps it
MetaTaskRaises(i, kind) ==
  /\ pc = "r2_run"
  /\ i \in DOMAIN gathered
  /\ gathered[i] = "pending"
  /\ faults < MaxFaults
  /\ faults' = faults + 1
  /\ gateway_errors' = gateway_errors \cup { << "R2", kind >> }
  /\ gathered' = [gathered EXCEPT ![i] = "exception"]
  /\ UNCHANGED << pc, cocktail, files, ready_list, activate, r1vars,
                  meta_active, meta_requests, meta, ultrai, error >>
  /\ UNCHANGED << callvars, apivars, fnvars, roundvars, servervars >>

\* for model, result in zip(active_list, gathered)
meta_responses(active_list, results) ==
  [ i \in DOMAIN active_list |->
      IF results[i] = "exception" THEN MetaError(active_list[i])
      ELSE MetaOk(active_list[i]) ]

\* gather returned: 04_meta.json and 04_meta_status.json
MetaFinish ==
  /\ pc = "r2_run"
  /\ \A i \in DOMAIN gathered : gathered[i] # "pending"
  /\ meta' = meta_responses(meta_active, gathered)
  /\ files' = files \cup {"04_meta.json", "04_meta_status.json"}
  /\ pc' = "r3"
  /\ UNCHANGED << cocktail, ready_list, activate, r1vars, meta_active,
                  gathered, meta_requests, ultrai, error, faults >>
  /\ UNCHANGED << gateway_errors, callvars, apivars, fnvars,
                  roundvars, servervars >>

\* ------------------------------------------------------------------------
\* R3: execute_ultrai_synthesis
\* ------------------------------------------------------------------------

\* variant: the first preferred model is chosen whether it is ACTIVE or not
select_ultra_model_any(active_list) ==
  IF active_list # << >> THEN Head(PREFERRED_ULTRA) ELSE NoModel

\* _select_ultra_model
select_ultra_model(active_list) ==
  LET preferred == FilterSeq(PREFERRED_ULTRA, Range(active_list))
  IN IF preferred # << >> THEN Head(preferred)
     ELSE IF active_list # << >> THEN active_list[1] ELSE NoModel

SynthesisPreconditionFails ==
  \/ "02_activate.json" \notin files
  \/ Len(activate.activeList) < 2
  \/ "04_meta.json" \notin files
  \/ Len(meta) = 0
  \/ "01_inputs.json" \notin files
  \/ select_ultra_model(activate.activeList) = NoModel

\* the synthesis call returned: 05_ultrai.json and 05_ultrai_status.json
SynthesisReturns ==
  /\ pc = "r3"
  /\ IF SynthesisPreconditionFails
     THEN /\ Raise("UltraiSynthesisError")
          /\ UNCHANGED ultrai
     ELSE /\ ultrai' = [ model |-> select_ultra_model(activate.activeList),
                         active_count |-> Len(activate.activeList),
                         meta_count |-> Len(meta) ]
          /\ files' = files \cup {"05_ultrai.json", "05_ultrai_status.json"}
          /\ pc' = "stats"
          /\ UNCHANGED error
  /\ gateway_errors' = {}
  /\ UNCHANGED << cocktail, ready_list, activate, r1vars, r2vars, faults >>
  /\ UNCHANGED << callvars, apivars, fnvars, roundvars, servervars >>

\* the synthesis call raised: every "raise UltraiSynthesisError" of the
\* retry loop leaves execute_ultrai_synthesis
SynthesisRaises(kind) ==
  /\ pc = "r3"
  /\ ~ SynthesisPreconditionFails
  /\ faults < MaxFaults
  /\ faults' = faults + 1
  /\ gateway_errors' = { << "R3", kind >> }
  /\ Raise("UltraiSynthesisError")
  /\ UNCHANGED << cocktail, ready_list, activate, r1vars, r2vars, ultrai >>
  /\ UNCHANGED << callvars, apivars, fnvars, roundvars, servervars >>

\* ------------------------------------------------------------------------
\* Statistics: generate_statistics as the orchestrator calls it
\* ------------------------------------------------------------------------

\* def generate_statistics(run_id: str)
GenerateStatisticsParameters == {"run_id"}

\* generate_statistics(run_id, total_time_ms=total_time_ms)
OrchestratorStatisticsArguments == {"run_id", "total_time_ms"}

\* Python raises TypeError for a keyword the function does not declare
CallRaisesTypeError(arguments, parameters) == arguments \ parameters # {}

GenerateStatistics ==
  /\ pc = "stats"
  /\ IF CallRaisesTypeError(OrchestratorStatisticsArguments,
                            GenerateStatisticsParameters)
     THEN Raise("TypeError")
     ELSE /\ files' = files \cup {"stats.json"}
          /\ pc' = "completed"
          /\ UNCHANGED error
  /\ UNCHANGED << cocktail, ready_list, activate, r1vars, r2vars, ultrai,
                  faults >>
  /\ UNCHANGED << gateway_errors, callvars, apivars, fnvars,
                  roundvars, servervars >>

\* ------------------------------------------------------------------------
\* GET /runs/{run_id}/status: run_status and _current_phase
\* ------------------------------------------------------------------------

\* the list "ordered" of _current_phase
ordered ==
  << "00_ready.json", "01_inputs.json", "02_activate.json",
     "03_initial.json", "04_meta.json", "05_ultrai.json", "06_final.json" >>

NoPhase == "<null>"

\* variant: the first artifact present is returned
current_phase_first(dir_files) ==
  LET present == FilterSeq(ordered, dir_files)
  IN IF present = << >> THEN NoPhase ELSE present[1]

\* present[-1] if present else None
current_phase(dir_files) ==
  LET present == FilterSeq(ordered, dir_files)
  IN IF present = << >> THEN NoPhase ELSE present[Len(present)]

\* the round run_status infers
round_val(dir_files) ==
  IF "03_initial.json" \in dir_files /\ "04_meta.json" \notin dir_files
  THEN "R1"
  ELSE IF "04_meta.json" \in dir_files /\ "05_ultrai.json" \notin dir_files
  THEN "R2"
  ELSE IF "05_ultrai.json" \in dir_files THEN "R3" ELSE "<null>"

\* variant: only the final artifact makes a run completed
run_status_final_only(dir_files) ==
  [ phase |-> current_phase(dir_files),
    round |-> round_val(dir_files),
    completed |-> "06_final.json" \in dir_files ]

\* the body run_status answers for a run directory holding dir_files
run_status(dir_files) ==
  [ phase |-> current_phase(dir_files),
    round |-> round_val(dir_files),
    completed |-> \/ "05_ultrai.json" \in dir_files
                  \/ "06_final.json" \in dir_files ]

\* the files a run directory may hold when its status is asked: the stage
\* modules, the add-ons step and the orchestrator's handler write them
DirEntries == Range(ordered) \cup { "error.txt" }

\* GET /runs/{run_id}/status on an existing run directory
GetStatus(dir_files) ==
  /\ fn_args' = [ fn |-> "run_status", dir_files |-> dir_files ]
  /\ fn_return' = run_status(dir_files)
  /\ UNCHANGED << runvars, callvars, apivars, roundvars, servervars >>

StatusNext == \E dir_files \in SUBSET DirEntries : GetStatus(dir_files)

StatusSpec == Init /\ [][StatusNext]_vars

\* ------------------------------------------------------------------------
\* One gateway call and its retry loop: the "for attempt in
\* range(max_retries)" of check_system_readiness, _query_single_model,
\* _query_meta_single and execute_ultrai_synthesis
\* ------------------------------------------------------------------------

CallSites == {"readiness", "R1", "R2", "R3"}

\* max_retries of each call site
max_retries(site) ==
  CASE site = "readiness" -> 3
    [] site = "R1" -> 2
    [] site = "R2" -> 2
    [] site = "R3" -> 3

\* the second argument of response.headers.get("Retry-After", ...)
RetryAfterDefault(site) ==
  CASE site = "readiness" -> 60
    [] site = "R1" -> 10
    [] site = "R2" -> 10
    [] site = "R3" -> 60

\* the sites that wrap the header in min(..., 10)
CappedSites == {"R1", "R2"}

\* the 10 of min(int(...), 10)
RetryAfterCap == 10

\* bound of the model: the seconds a Retry-After header may carry
RetryAfterValues == {0, 5, 10, 11, 60, 120}

NoHeader == [ present |-> FALSE, numeric |-> FALSE, seconds |-> 0 ]
\* a Retry-After that is an HTTP date: int() raises ValueError on it
DateHeader == [ present |-> TRUE, numeric |-> FALSE, seconds |-> 0 ]

RetryAfterHeaders ==
  { NoHeader, DateHeader } \cup
  { [ present |-> TRUE, numeric |-> TRUE, seconds |-> n ] :
      n \in RetryAfterValues }

\* the status codes the gateway answers with
StatusCodes == {200, 401, 402, 404, 429, 503}

Min(a, b) == IF a < b THEN a ELSE b

\* retry_after as each site computes it from a header int() accepts
retry_after(site, header) ==
  LET seconds == IF header.present THEN header.seconds
                 ELSE RetryAfterDefault(site)
  IN IF site \in CappedSites THEN Min(seconds, RetryAfterCap) ELSE seconds

RECURSIVE Pow2(_)
Pow2(n) == IF n = 0 THEN 1 ELSE 2 * Pow2(n - 1)

\* "if attempt < max_retries - 1: await asyncio.sleep(seconds); continue",
\* else the raise that follows it
SleepAndContinueOrRaise(cause, seconds) ==
  IF attempt < max_retries(call_site) - 1
  THEN /\ sleeps' = Append(sleeps, [ after |-> cause, seconds |-> seconds ])
       /\ attempt' = attempt + 1
       /\ UNCHANGED << call_pc, call_error >>
  ELSE /\ call_pc' = "raised"
       /\ call_error' = "transient"
       /\ UNCHANGED << attempt, sleeps >>

\* a stage starts a call: attempt 0 of the loop
BeginCall(site) ==
  /\ call_pc = "idle"
  /\ call_site' = site
  /\ call_pc' = "request"
  /\ attempt' = 0
  /\ sleeps' = << >>
  /\ call_error' = ""
  /\ UNCHANGED << runvars, apivars, fnvars, roundvars, servervars >>

\* the gateway answered the request of this attempt; well_formed says
\* whether a 200 carries the expected body
Answer(status, header, well_formed) ==
  /\ call_pc = "request"
  /\ CASE status \in {401, 402} ->
            /\ call_pc' = "raised"
            /\ call_error' = "credential"
            /\ UNCHANGED << attempt, sleeps >>
       [] status = 429 ->
            IF header.present /\ ~ header.numeric
            THEN \* ValueError from int(): the "except Exception" branch
                 SleepAndContinueOrRaise("backoff", Pow2(attempt))
            ELSE SleepAndContinueOrRaise("429",
                                         retry_after(call_site, header))
       [] status >= 500 ->
            SleepAndContinueOrRaise("backoff", Pow2(attempt))
       [] status = 404 ->
            \* raise_for_status, then "except httpx.HTTPStatusError"
            /\ call_pc' = "raised"
            /\ call_error' = "transient"
            /\ UNCHANGED << attempt, sleeps >>
       [] OTHER ->
            IF well_formed
            THEN /\ call_pc' = "returned"
                 /\ UNCHANGED << attempt, sleeps, call_error >>
            ELSE /\ call_pc' = "raised"
                 /\ call_error' = "transient"
                 /\ UNCHANGED << attempt, sleeps >>
  /\ UNCHANGED << call_site, runvars, apivars, fnvars, roundvars, servervars >>

\* httpx.TimeoutException on this attempt
TimeoutException ==
  /\ call_pc = "request"
  /\ SleepAndContinueOrRaise("backoff", Pow2(attempt))
  /\ UNCHANGED << call_site, runvars, apivars, fnvars, roundvars, servervars >>

CallNext ==
  \/ \E site \in CallSites : BeginCall(site)
  \/ \E status \in StatusCodes, header \in RetryAfterHeaders,
        well_formed \in BOOLEAN : Answer(status, header, well_formed)
  \/ TimeoutException

CallSpec == Init /\ [][CallNext]_vars

\* ------------------------------------------------------------------------
\* R3: the synthesis timeout and the truncation of the META drafts
\* ------------------------------------------------------------------------

\* bound of the model: META drafts in 04_meta.json
MaxDrafts == 4

Max(a, b) == IF a > b THEN a ELSE b

\* the lengths len(peer_context) is drawn from
ContextLengths ==
  { 0, 1, 500, 999, 1000, 1001, 2000, 2999, 3000, 3001, 4000, 4500, 4999,
    5000, 5001, 7500, 10000, 20000, 50000, 100000 }

\* length_factor in tenths, from len(peer_context)
length_factor(context_len) ==
  IF context_len < 1000 THEN 10
  ELSE IF context_len < 3000 THEN 15
  ELSE IF context_len < 5000 THEN 20
  ELSE 30

\* variant: four or more drafts shorten the timeout
calculate_synthesis_timeout_scaled_down(context_len, num_meta_drafts) ==
  LET scaled == IF num_meta_drafts > 3
                THEN length_factor(context_len) * 8
                ELSE length_factor(context_len) * 10
  IN Max(60, Min(300, (60 * scaled) \div 100))

\* calculate_synthesis_timeout, in seconds. The factors are kept in
\* hundredths, so every product is a whole number of seconds; the float
\* products 60 * (1.5 * 1.2) and 60 * (3.0 * 1.2) of the source lie within
\* 10^-13 of the 108 and 216 computed here.
calculate_synthesis_timeout(context_len, num_meta_drafts) ==
  LET scaled == IF num_meta_drafts > 3
                THEN length_factor(context_len) * 12
                ELSE length_factor(context_len) * 10
  IN Max(60, Min(300, (60 * scaled) \div 100))

\* len("x" * 10000), the worst case estimate of the preliminary timeout
WorstCaseContext == 10000

\* max_chars_per_draft from the preliminary timeout
max_chars_per_draft(timeout_prelim) ==
  IF timeout_prelim >= 180 THEN 2000
  ELSE IF timeout_prelim >= 120 THEN 1200
  ELSE IF timeout_prelim >= 90 THEN 800
  ELSE 500

\* the drafts of 04_meta.json: the lengths of the model id and of the text,
\* and whether the record is an error record
ModelIdLengths == { 13 }
TextLengths == { 1107, 1108, 2500 }
Drafts ==
  [ id_len : ModelIdLengths, text_len : TextLengths, error : {FALSE} ]
    \cup [ id_len : ModelIdLengths, text_len : {0}, error : {TRUE} ]

\* len(f"- {model_id}: ERROR") or len(f"- {model_id}: {snippet}")
summary_len(draft, cap) ==
  IF draft.error THEN 2 + draft.id_len + 2 + 5
  ELSE 2 + draft.id_len + 2 + Min(draft.text_len, cap)

RECURSIVE SumLen(_, _)
SumLen(drafts, cap) ==
  IF drafts = << >> THEN 0
  ELSE summary_len(Head(drafts), cap) + SumLen(Tail(drafts), cap)

\* len("\n".join(peer_summaries))
peer_context_len(drafts, cap) ==
  IF drafts = << >> THEN 0 ELSE SumLen(drafts, cap) + Len(drafts) - 1

\* calculate_synthesis_timeout is called
CalculateSynthesisTimeout(context_len, num_meta_drafts) ==
  /\ fn_args' = [ fn |-> "calculate_synthesis_timeout",
                  context_len |-> context_len,
                  num_meta_drafts |-> num_meta_drafts ]
  /\ fn_return' = calculate_synthesis_timeout(context_len, num_meta_drafts)
  /\ UNCHANGED << runvars, callvars, apivars, roundvars, servervars >>

\* execute_ultrai_synthesis builds the META context of the drafts and
\* records the details of 05_ultrai_status.json
BuildMetaContext(meta_drafts) ==
  LET timeout_prelim ==
        calculate_synthesis_timeout(WorstCaseContext, Len(meta_drafts))
      cap == max_chars_per_draft(timeout_prelim)
      context_length == peer_context_len(meta_drafts, cap)
  IN /\ Len(meta_drafts) > 0
     /\ fn_args' = [ fn |-> "execute_ultrai_synthesis",
                     meta_drafts |-> meta_drafts ]
     /\ fn_return' =
          [ timeout_prelim |-> timeout_prelim,
            timeout |-> calculate_synthesis_timeout(context_length,
                                                    Len(meta_drafts)),
            context_length |-> context_length,
            num_meta_drafts |-> Len(meta_drafts),
            max_chars_per_draft |-> cap ]
     /\ UNCHANGED << runvars, callvars, apivars, roundvars, servervars >>

SeqsUpTo(S, n) == UNION { [ 1 .. k -> S ] : k \in 0 .. n }

TimeoutNext ==
  \E context_len \in ContextLengths, k \in 0 .. MaxDrafts + 1 :
    CalculateSynthesisTimeout(context_len, k)

TimeoutSpec == Init /\ [][TimeoutNext]_vars

MetaContextNext ==
  \E meta_drafts \in SeqsUpTo(Drafts, MaxDrafts) :
    BuildMetaContext(meta_drafts)

MetaContextSpec == Init /\ [][MetaContextNext]_vars

\* ------------------------------------------------------------------------
\* Run directory paths: _sanitize_run_id, _build_runs_dir and the endpoints
\* that take {run_id} and {artifact_name}
\* ------------------------------------------------------------------------

\* bound of the model: characters of a run id
MaxIdLen == 3

\* the characters of a run id: "a" and "-" stand for [a-zA-Z0-9_-]
SafeChars == { "a", "-" }
Alphabet == SafeChars \cup { ".", "/", "\\", "\n" }

\* strings are sequences of characters
Strings(chars, n) == UNION { [ 1 .. k -> chars ] : k \in 0 .. n }

\* re.match(r'^[a-zA-Z0-9_-]+$', run_id): "$" also matches before a
\* newline that ends the string
re_match(run_id) ==
  LET n == Len(run_id)
      body == IF n > 0 /\ run_id[n] = "\n"
              THEN SubSeq(run_id, 1, n - 1) ELSE run_id
  IN body # << >> /\ \A i \in DOMAIN body : body[i] \in SafeChars

\* '..' in run_id or '/' in run_id or '\\' in run_id
has_traversal(run_id) ==
  \/ \E i \in 1 .. Len(run_id) - 1 : run_id[i] = "." /\ run_id[i + 1] = "."
  \/ \E i \in DOMAIN run_id : run_id[i] \in { "/", "\\" }

RECURSIVE SelectChars(_, _)
\* ''.join(c for c in run_id if c in keep)
SelectChars(text, keep) ==
  IF text = << >> THEN << >>
  ELSE IF Head(text) \in keep
  THEN << Head(text) >> \o SelectChars(Tail(text), keep)
  ELSE SelectChars(Tail(text), keep)

\* variant: the format of run_id is not validated
sanitize_run_id_unchecked(run_id) ==
  [ ok |-> TRUE, clean |-> run_id ]

\* _sanitize_run_id: ok is FALSE when HTTPException(400) is raised
sanitize_run_id(run_id) ==
  IF ~ re_match(run_id) \/ has_traversal(run_id)
  THEN [ ok |-> FALSE, clean |-> << >> ]
  ELSE [ ok |-> TRUE, clean |-> SelectChars(run_id, SafeChars) ]

\* a path is the sequence of its components below the root
AppDir == << "app" >>
RunsDir == << "runs" >>
OutsideDir == << "etc" >>

\* the working directory of the server
Cwd == << AppDir >>

RECURSIVE split_path(_, _, _)
\* the components of a path string
split_path(text, cur, acc) ==
  IF text = << >>
  THEN IF cur = << >> THEN acc ELSE Append(acc, cur)
  ELSE IF Head(text) = "/"
  THEN split_path(Tail(text), << >>,
                  IF cur = << >> THEN acc ELSE Append(acc, cur))
  ELSE split_path(Tail(text), Append(cur, Head(text)), acc)

\* Path.joinpath: an absolute argument replaces the base
joinpath(base, text) ==
  IF text # << >> /\ Head(text) = "/"
  THEN split_path(text, << >>, << >>)
  ELSE base \o split_path(text, << >>, << >>)

RECURSIVE resolve_from(_, _, _)
\* Path.resolve: "." and ".." are removed and symbolic links followed
resolve_from(parts, cur, links) ==
  IF parts = << >> THEN cur
  ELSE LET c == Head(parts)
           next == IF c = << "." >> THEN cur
                   ELSE IF c = << ".", "." >>
                   THEN SubSeq(cur, 1, Max(Len(cur) - 1, 0))
                   ELSE IF Append(cur, c) \in DOMAIN links
                   THEN links[Append(cur, c)]
                   ELSE Append(cur, c)
       IN resolve_from(Tail(parts), next, links)

resolve(path, links) == resolve_from(path, << >>, links)

\* Path.relative_to succeeds: base is path or an ancestor of it
relative_to(path, base) ==
  Len(base) <= Len(path) /\ SubSeq(path, 1, Len(base)) = base

\* _get_safe_runs_base: Path("runs").resolve()
get_safe_runs_base(links) == resolve(Cwd \o << RunsDir >>, links)

\* the symbolic links the file system may hold: none, or runs/a pointing
\* out of the runs directory
NoLinks == << >>
Links ==
  { NoLinks,
    [ l \in { Cwd \o << RunsDir, << "a" >> >> } |-> << OutsideDir >> ] }

\* _build_runs_dir: status 400 when HTTPException is raised, else the path
build_runs_dir(run_id, links) ==
  LET sanitized == sanitize_run_id(run_id)
      runs_base == get_safe_runs_base(links)
      safe_run_dir == resolve(joinpath(runs_base, sanitized.clean), links)
  IN IF ~ sanitized.ok THEN [ status |-> 400, path |-> << >> ]
     ELSE IF ~ relative_to(safe_run_dir, runs_base)
     THEN [ status |-> 400, path |-> << >> ]
     ELSE [ status |-> 200, path |-> safe_run_dir ]

\* _build_runs_dir is called
BuildRunsDir(run_id, links) ==
  /\ fn_args' = [ fn |-> "_build_runs_dir", run_id |-> run_id,
                  links |-> links ]
  /\ fn_return' = build_runs_dir(run_id, links)
  /\ UNCHANGED << runvars, callvars, apivars, roundvars, servervars >>

PathNext ==
  \E run_id \in Strings(Alphabet, MaxIdLen), links \in Links :
    BuildRunsDir(run_id, links)

PathSpec == Init /\ [][PathNext]_vars

\* the characters of a path parameter: the router gives a handler one
\* non-empty segment of the URL path, which holds no "/"
ParamChars == { "a", ".", "\\", "\n" }
PathParams == Strings(ParamChars, MaxIdLen) \ { << >> }

\* the artifact names asked for; ".json" stands for that suffix
JsonSuffix == ".json"
ArtifactNames ==
  { << "a", JsonSuffix >>, << JsonSuffix >>, << ".", ".", JsonSuffix >>,
    << "a" >>, << ".", "." >> }

\* artifact_name.endswith('.json')
endswith_json(artifact_name) ==
  artifact_name # << >> /\ artifact_name[Len(artifact_name)] = JsonSuffix

EventsLog == << "events.log" >>
ErrorTxt == << "error.txt" >>

\* _events_log_path: Path(f"runs/{run_id}/events.log"), as the operating
\* system resolves it from the working directory
events_log_path(run_id) ==
  resolve(Cwd \o << RunsDir >> \o split_path(run_id, << >>, << >>)
              \o << EventsLog >>, NoLinks)

\* what a handler answers: its status (400 when the parameters are refused
\* before any file system access) and the paths it accesses
Refused == [ status |-> 400, touched |-> {} ]

\* run_status and list_artifacts: the run directory is tested and listed
run_dir_handler(run_id) ==
  LET dir == build_runs_dir(run_id, NoLinks)
  IN IF dir.status = 400 THEN Refused
     ELSE [ status |-> 200, touched |-> { dir.path } ]

\* get_error: the run directory and its error.txt
get_error(run_id) ==
  LET dir == build_runs_dir(run_id, NoLinks)
  IN IF dir.status = 400 THEN Refused
     ELSE [ status |-> 200,
            touched |-> { dir.path, dir.path \o << ErrorTxt >> } ]

\* get_artifact: the run directory and validated_run_dir / artifact_name
get_artifact(run_id, artifact_name) ==
  IF ~ endswith_json(artifact_name) THEN Refused
  ELSE LET dir == build_runs_dir(run_id, NoLinks)
       IN IF dir.status = 400 THEN Refused
          ELSE [ status |-> 200,
                 touched |-> { dir.path,
                               resolve(dir.path \o << artifact_name >>,
                                       NoLinks) } ]

\* stream_events: the events log of the run id as given
stream_events(run_id) ==
  [ status |-> 200, touched |-> { events_log_path(run_id) } ]

\* GET /runs/{run_id}/status
GetRunStatus(run_id) ==
  /\ fn_args' = [ fn |-> "/runs/{run_id}/status", run_id |-> run_id ]
  /\ fn_return' = run_dir_handler(run_id)
  /\ UNCHANGED << runvars, callvars, apivars, roundvars, servervars >>

\* GET /runs/{run_id}/artifacts
ListArtifacts(run_id) ==
  /\ fn_args' = [ fn |-> "/runs/{run_id}/artifacts", run_id |-> run_id ]
  /\ fn_return' = run_dir_handler(run_id)
  /\ UNCHANGED << runvars, callvars, apivars, roundvars, servervars >>

\* GET /runs/{run_id}/artifacts/{artifact_name}
GetArtifact(run_id, artifact_name) ==
  /\ fn_args' = [ fn |-> "/runs/{run_id}/artifacts/{artifact_name}",
                  run_id |-> run_id, artifact_name |-> artifact_name ]
  /\ fn_return' = get_artifact(run_id, artifact_name)
  /\ UNCHANGED << runvars, callvars, apivars, roundvars, servervars >>

\* GET /runs/{run_id}/error
GetError(run_id) ==
  /\ fn_args' = [ fn |-> "/runs/{run_id}/error", run_id |-> run_id ]
  /\ fn_return' = get_error(run_id)
  /\ UNCHANGED << runvars, callvars, apivars, roundvars, servervars >>

\* GET /runs/{run_id}/events
StreamEvents(run_id) ==
  /\ fn_args' = [ fn |-> "/runs/{run_id}/events", run_id |-> run_id ]
  /\ fn_return' = stream_events(run_id)
  /\ UNCHANGED << runvars, callvars, apivars, roundvars, servervars >>

EndpointNext ==
  \/ \E run_id \in PathParams : GetRunStatus(run_id)
  \/ \E run_id \in PathParams : ListArtifacts(run_id)
  \/ \E run_id \in PathParams, artifact_name \in ArtifactNames :
       GetArtifact(run_id, artifact_name)
  \/ \E run_id \in PathParams : GetError(run_id)
  \/ \E run_id \in PathParams : StreamEvents(run_id)

EndpointSpec == Init /\ [][EndpointNext]_vars

\* ------------------------------------------------------------------------
\* The API server across runs: POST /runs (start_run) and the pipeline
\* tasks it schedules, each followed stage by stage
\* ------------------------------------------------------------------------

\* bounds of the model: ticks of the clock, ticks per second of the clock,
\* POST /runs requests handled, pipeline tasks scheduled
MaxTicks == 3
TicksPerSecond == 2
MaxRequests == 3
MaxTasks == 2

\* the characters of a query
Space == " "
Letter == "q"

\* the "query" fields a request body may carry; NoQuery is a body without
\* the field
NoQuery == << "<none>" >>
Queries == { NoQuery, << >>, << Space >>, << Space, Letter >>, << Letter >> }

\* the "cocktail" fields a request body may carry; NoCocktail is a body
\* without the field
NoCocktail == "<none>"
Cocktails == { NoCocktail, "SPEEDY", "LUXE", "speedy" }

RECURSIVE lstrip(_)
lstrip(text) ==
  IF text # << >> /\ Head(text) = Space THEN lstrip(Tail(text)) ELSE text

RECURSIVE rstrip(_)
rstrip(text) ==
  IF text # << >> /\ text[Len(text)] = Space
  THEN rstrip(SubSeq(text, 1, Len(text) - 1)) ELSE text

\* str.strip
strip(text) == rstrip(lstrip(text))

\* cocktail.lower() on the accepted names
lower(c) ==
  CASE c = "LUXE" -> "luxe"
    [] c = "PREMIUM" -> "premium"
    [] c = "SPEEDY" -> "speedy"
    [] c = "BUDGET" -> "budget"
    [] c = "DEPTH" -> "depth"

\* datetime.now().strftime('%Y%m%d_%H%M%S'): the clock cut to whole seconds
strftime(ticks) == ticks \div TicksPerSecond

\* f"api_{cocktail.lower()}_{datetime.now().strftime('%Y%m%d_%H%M%S')}"
run_id_of(c, ticks) == << "api", lower(c), strftime(ticks) >>

\* the files of runs/<run_id>/ ({} when the directory does not exist)
DirFiles(dirs, id) == IF id \in DOMAIN dirs THEN dirs[id] ELSE {}

\* a file is written into runs/<run_id>/, the directory made if needed
WriteFile(dirs, id, name) ==
  [ d \in DOMAIN dirs \cup {id} |->
      IF d = id THEN DirFiles(dirs, id) \cup {name} ELSE dirs[d] ]

Rejected(detail) ==
  /\ last_response' = [ status |-> 400, detail |-> detail, run_id |-> << >>,
                        request |-> last_response.request + 1 ]
  /\ UNCHANGED << run_dirs, tasks >>

\* variant: the run_start event is written before the credential check
start_run_logs_first(query, c, key) ==
  LET cocktail_given == IF c = NoCocktail THEN "SPEEDY" ELSE c
  IN IF query = NoQuery \/ query = << >> \/ strip(query) = << >>
     THEN Rejected("QUERY cannot be empty")
     ELSE IF cocktail_given \notin ValidCocktails
     THEN Rejected("Invalid COCKTAIL value")
     ELSE LET id == run_id_of(cocktail_given, now)
          IN IF ~ key
             THEN /\ last_response' =
                       [ status |-> 400,
                         detail |-> "Missing OPENROUTER_API_KEY",
                         run_id |-> << >>,
                         request |-> last_response.request + 1 ]
                  /\ run_dirs' = WriteFile(run_dirs, id, "events.log")
                  /\ UNCHANGED tasks
             ELSE /\ run_dirs' = WriteFile(run_dirs, id, "events.log")
                  /\ tasks' = Append(tasks, [ run_id |-> id,
                                              status |-> "scheduled",
                                              at |-> 0 ])
                  /\ last_response' =
                       [ status |-> 200, detail |-> "", run_id |-> id,
                         request |-> last_response.request + 1 ]

\* the body of start_run; key says whether OPENROUTER_API_KEY is set
start_run(query, c, key) ==
  LET cocktail_given == IF c = NoCocktail THEN "SPEEDY" ELSE c
  IN IF query = NoQuery \/ query = << >> \/ strip(query) = << >>
     THEN Rejected("QUERY cannot be empty")
     ELSE IF cocktail_given \notin ValidCocktails
     THEN Rejected("Invalid COCKTAIL value")
     ELSE LET id == run_id_of(cocktail_given, now)
          IN IF ~ key
             THEN Rejected("Missing OPENROUTER_API_KEY")
             ELSE /\ run_dirs' = WriteFile(run_dirs, id, "events.log")
                  /\ tasks' = Append(tasks, [ run_id |-> id,
                                              status |-> "scheduled",
                                              at |-> 0 ])
                  /\ last_response' =
                       [ status |-> 200, detail |-> "", run_id |-> id,
                         request |-> last_response.request + 1 ]

\* POST /runs
PostRuns(query, c, key) ==
  /\ last_response.request < MaxRequests
  /\ Len(tasks) < MaxTasks
  /\ start_run(query, c, key)
  /\ UNCHANGED << now, progress_tracker, runvars, callvars, fnvars,
                  roundvars, servervars >>

\* the clock advances
Tick ==
  /\ now < MaxTicks
  /\ now' = now + 1
  /\ UNCHANGED << run_dirs, tasks, progress_tracker, last_response,
                  runvars, callvars, fnvars, roundvars, servervars >>

\* the six artifacts _orchestrate_pipeline's stages write, in call order
PipelineArtifacts ==
  << "00_ready.json", "01_inputs.json", "02_activate.json",
     "03_initial.json", "04_meta.json", "05_ultrai.json" >>

\* the event loop starts a scheduled task: the first _update_progress
TaskStarts(t) ==
  /\ t \in DOMAIN tasks
  /\ tasks[t].status = "scheduled"
  /\ tasks' = [tasks EXCEPT ![t].status = "running"]
  /\ progress_tracker' = progress_tracker \cup { tasks[t].run_id }
  /\ UNCHANGED << now, run_dirs, last_response, runvars, callvars, fnvars,
                  roundvars, servervars >>

\* the task's next stage returns after writing its artifact
TaskStageReturns(t) ==
  /\ t \in DOMAIN tasks
  /\ tasks[t].status = "running"
  /\ tasks[t].at < Len(PipelineArtifacts)
  /\ run_dirs' = WriteFile(run_dirs, tasks[t].run_id,
                           PipelineArtifacts[tasks[t].at + 1])
  /\ tasks' = [tasks EXCEPT ![t].at = tasks[t].at + 1]
  /\ UNCHANGED << now, progress_tracker, last_response, runvars, callvars, fnvars,
                  roundvars, servervars >>

\* variant: no except handler around the stages: the exception ends the task
\* and nothing is written
TaskRaises_unhandled(t) ==
  /\ t \in DOMAIN tasks
  /\ tasks[t].status = "running"
  /\ tasks' = [tasks EXCEPT ![t].status = "failed"]
  /\ UNCHANGED << now, run_dirs, progress_tracker, last_response, runvars,
                  callvars, fnvars, roundvars, servervars >>

\* the task's next stage raises, or generate_statistics is called after the
\* sixth stage and raises TypeError: the except handler writes error.txt
TaskRaises(t) ==
  /\ t \in DOMAIN tasks
  /\ tasks[t].status = "running"
  /\ run_dirs' = WriteFile(run_dirs, tasks[t].run_id, "error.txt")
  /\ tasks' = [tasks EXCEPT ![t].status = "failed"]
  /\ progress_tracker' = progress_tracker \cup { tasks[t].run_id }
  /\ UNCHANGED << now, last_response, runvars, callvars, fnvars,
                  roundvars, servervars >>

ApiNext ==
  \/ \E query \in Queries, c \in Cocktails, key \in BOOLEAN :
        PostRuns(query, c, key)
  \/ Tick
  \/ \E t \in 1 .. MaxTasks : TaskStarts(t)
  \/ \E t \in 1 .. MaxTasks : TaskStageReturns(t)
  \/ \E t \in 1 .. MaxTasks : TaskRaises(t)

ApiSpec == Init /\ [][ApiNext]_vars

\* a step of the background task _orchestrate_pipeline
TaskStep(t) == TaskStarts(t) \/ TaskStageReturns(t) \/ TaskRaises(t)

\* the event loop runs a task created by asyncio.create_task whenever it can
\* take a step, and the stage a task awaits eventually returns or raises,
\* every gateway call under it returning or timing out; nothing is assumed
\* of the caller's requests or of the clock
ApiFairSpec == ApiSpec /\ \A t \in 1 .. MaxTasks : WF_vars(TaskStep(t))

\* ------------------------------------------------------------------------
\* One round with its tasks: _execute_parallel_queries (R1) and
\* _execute_parallel_meta (R2), the semaphore of _query_single_model and
\* _query_meta_single, the progress callback and the per-model steps
\* ------------------------------------------------------------------------

\* bound of the model: attachments of a query
MaxAttachments == 4

\* calculate_concurrency_limit
calculate_concurrency_limit(has_attachments, attachment_count, n) ==
  IF has_attachments
  THEN IF attachment_count > 3 THEN 1
       ELSE IF attachment_count > 1 THEN 2
       ELSE 2
  ELSE n

\* PRIMARY_ATTEMPTS of active_llms.py
PRIMARY_ATTEMPTS == 2

\* variant: the rounds retry as often as the synthesis call does
RoundMaxRetries_as_synthesis == max_retries("R3")

\* max_retries of _query_single_model and _query_meta_single
RoundMaxRetries == max_retries("R1")

\* where a task is: about to enter "async with semaphore", awaiting the
\* answer to its POST, asleep inside or outside the "async with" block, or
\* finished with a response or an error record; "posts" counts the requests
\* the task has sent for its slot, primary and backup together
WorkerPc == { "ready", "in_flight", "held_sleep", "sleep", "done_ok",
              "done_error" }

\* the text of a per-model step: "R1: <model> responding" and "R2: <model>
\* revising" are prepopulated, "R1: <model> completed (<t>s)" and
\* "R2: <model> revised (<t>s)" are added by r1_progress and r2_progress
PendingText(round) == IF round = "R1" THEN "responding" ELSE "revising"
DoneText(round) == IF round = "R1" THEN "completed" ELSE "revised"

\* _prepopulate_model_steps, for the models of the round
prepopulate_model_steps(round, n) ==
  [ i \in 1 .. n |->
      [ text |-> PendingText(round), model |-> i, backup |-> FALSE,
        status |-> "pending" ] ]

RECURSIVE LastMatch(_, _, _)
\* the index of the most recent step whose text holds step_text (0 if none)
LastMatch(step_list, step, i) ==
  IF i = 0 THEN 0
  ELSE IF /\ step_list[i].text = step.text
          /\ step_list[i].model = step.model
          /\ step_list[i].backup = step.backup
  THEN i
  ELSE LastMatch(step_list, step, i - 1)

\* _update_progress: the step is appended with status in_progress
update_progress(step_list, step) ==
  Append(step_list, [ step EXCEPT !.status = "in_progress" ])

\* _complete_progress_step: the most recent matching step is completed
complete_progress_step(step_list, step) ==
  LET i == LastMatch(step_list, step, Len(step_list))
  IN IF i = 0 THEN step_list
     ELSE [ step_list EXCEPT ![i].status = "completed" ]

\* r1_progress and r2_progress
round_progress(step_list, round, model, backup) ==
  LET step == [ text |-> DoneText(round), model |-> model,
                backup |-> backup, status |-> "" ]
  IN complete_progress_step(update_progress(step_list, step), step)

\* the executor is entered: the semaphore is created and one task per model
\* is scheduled; the orchestrator has prepopulated the steps
BeginRound(round, n, num_backups, attachment_count) ==
  /\ round_args = NoRound
  /\ round = "R1" => n = 3
  /\ round = "R2" => num_backups = 0
  /\ LET limit == calculate_concurrency_limit(attachment_count > 0,
                                              attachment_count, n)
     IN semaphore' = [ limit |-> limit, value |-> limit ]
  /\ round_args' = [ round |-> round, total_count |-> n,
                     attachment_count |-> attachment_count ]
  /\ worker' = [ i \in 1 .. n |->
                   [ pc |-> "ready", attempt |-> 0, on_backup |-> FALSE,
                     has_backup |-> i <= num_backups, posts |-> 0 ] ]
  /\ round_completed' = 0
  /\ callbacks' = << >>
  /\ steps' = prepopulate_model_steps(round, n)
  /\ UNCHANGED << runvars, callvars, apivars, fnvars, servervars >>

\* variant: the block is entered without waiting for a permit
Acquire_without_permit(i) ==
  /\ i \in DOMAIN worker
  /\ worker[i].pc = "ready"
  /\ semaphore' = [ semaphore EXCEPT !.value = semaphore.value - 1 ]
  /\ worker' = [ worker EXCEPT ![i].pc = "in_flight",
                               ![i].posts = worker[i].posts + 1 ]
  /\ UNCHANGED << round_args, round_completed, callbacks, steps >>
  /\ UNCHANGED << runvars, callvars, apivars, fnvars, servervars >>

\* "async with semaphore" is entered and the POST is sent
Acquire(i) ==
  /\ i \in DOMAIN worker
  /\ worker[i].pc = "ready"
  /\ semaphore.value > 0
  /\ semaphore' = [ semaphore EXCEPT !.value = semaphore.value - 1 ]
  /\ worker' = [ worker EXCEPT ![i].pc = "in_flight",
                               ![i].posts = worker[i].posts + 1 ]
  /\ UNCHANGED << round_args, round_completed, callbacks, steps >>
  /\ UNCHANGED << runvars, callvars, apivars, fnvars, servervars >>

Released == [ semaphore EXCEPT !.value = semaphore.value + 1 ]

\* variant: the callback is also made for a slot that ends in an error
\* record
TaskFails_with_callback(i) ==
  IF round_args.round = "R1" /\ worker[i].has_backup
     /\ ~ worker[i].on_backup
  THEN /\ worker' = [ worker EXCEPT ![i].pc = "ready", ![i].attempt = 0,
                                    ![i].on_backup = TRUE ]
       /\ UNCHANGED << round_completed, callbacks, steps >>
  ELSE /\ worker' = [ worker EXCEPT ![i].pc = "done_error" ]
       /\ round_completed' = round_completed + 1
       /\ callbacks' = Append(callbacks,
                              [ model |-> i, backup |-> worker[i].on_backup,
                                total |-> round_args.total_count,
                                completed |-> round_completed + 1 ])
       /\ UNCHANGED steps

\* the model call raised: R1 turns to the slot's backup once, else the slot
\* ends in an error record; the counter is incremented and the callback is
\* not made
TaskFails(i) ==
  IF round_args.round = "R1" /\ worker[i].has_backup
     /\ ~ worker[i].on_backup
  THEN /\ worker' = [ worker EXCEPT ![i].pc = "ready", ![i].attempt = 0,
                                    ![i].on_backup = TRUE ]
       /\ UNCHANGED << round_completed, callbacks, steps >>
  ELSE /\ worker' = [ worker EXCEPT ![i].pc = "done_error" ]
       /\ round_completed' = round_completed + 1
       /\ UNCHANGED << callbacks, steps >>

\* the POST was answered 200 with a well-formed body: the block is left, the
\* counter incremented and the callback made
ModelAnswers(i) ==
  /\ i \in DOMAIN worker
  /\ worker[i].pc = "in_flight"
  /\ semaphore' = Released
  /\ worker' = [ worker EXCEPT ![i].pc = "done_ok" ]
  /\ round_completed' = round_completed + 1
  /\ callbacks' = Append(callbacks,
                         [ model |-> i, backup |-> worker[i].on_backup,
                           total |-> round_args.total_count,
                           completed |-> round_completed + 1 ])
  /\ steps' = round_progress(steps, round_args.round, i, worker[i].on_backup)
  /\ UNCHANGED round_args
  /\ UNCHANGED << runvars, callvars, apivars, fnvars, servervars >>

\* the POST was answered 401, 402, another 4xx or a malformed body: the
\* block is left by the exception
ModelRefuses(i) ==
  /\ i \in DOMAIN worker
  /\ worker[i].pc = "in_flight"
  /\ semaphore' = Released
  /\ TaskFails(i)
  /\ UNCHANGED round_args
  /\ UNCHANGED << runvars, callvars, apivars, fnvars, servervars >>

\* the POST was answered 429 or 5xx: asyncio.sleep inside the block, or the
\* exception when no attempt is left
ModelOverloaded(i) ==
  /\ i \in DOMAIN worker
  /\ worker[i].pc = "in_flight"
  /\ IF worker[i].attempt < RoundMaxRetries - 1
     THEN /\ worker' = [ worker EXCEPT ![i].pc = "held_sleep" ]
          /\ UNCHANGED << semaphore, round_completed, callbacks, steps >>
     ELSE /\ semaphore' = Released
          /\ TaskFails(i)
  /\ UNCHANGED round_args
  /\ UNCHANGED << runvars, callvars, apivars, fnvars, servervars >>

\* httpx.TimeoutException: the block is left, then asyncio.sleep, or the
\* exception when no attempt is left
ModelTimesOut(i) ==
  /\ i \in DOMAIN worker
  /\ worker[i].pc = "in_flight"
  /\ semaphore' = Released
  /\ IF worker[i].attempt < RoundMaxRetries - 1
     THEN /\ worker' = [ worker EXCEPT ![i].pc = "sleep" ]
          /\ UNCHANGED << round_completed, callbacks, steps >>
     ELSE TaskFails(i)
  /\ UNCHANGED round_args
  /\ UNCHANGED << runvars, callvars, apivars, fnvars, servervars >>

\* asyncio.sleep returns and "continue" starts the next attempt
Wake(i) ==
  /\ i \in DOMAIN worker
  /\ worker[i].pc \in { "held_sleep", "sleep" }
  /\ semaphore' = IF worker[i].pc = "held_sleep" THEN Released ELSE semaphore
  /\ worker' = [ worker EXCEPT ![i].pc = "ready",
                               ![i].attempt = worker[i].attempt + 1 ]
  /\ UNCHANGED << round_args, round_completed, callbacks, steps >>
  /\ UNCHANGED << runvars, callvars, apivars, fnvars, servervars >>

RoundNext ==
  \/ \E round \in { "R1", "R2" }, n \in 2 .. 3, num_backups \in 0 .. 3,
        attachment_count \in 0 .. MaxAttachments :
       BeginRound(round, n, num_backups, attachment_count)
  \/ \E i \in 1 .. 3 : Acquire(i)
  \/ \E i \in 1 .. 3 : ModelAnswers(i)
  \/ \E i \in 1 .. 3 : ModelRefuses(i)
  \/ \E i \in 1 .. 3 : ModelOverloaded(i)
  \/ \E i \in 1 .. 3 : ModelTimesOut(i)
  \/ \E i \in 1 .. 3 : Wake(i)

RoundSpec == Init /\ [][RoundNext]_vars

\* ------------------------------------------------------------------------
\* The artifact files of one run: the stages write them and the GET
\* endpoints read them, all as coroutines of one event loop
\* ------------------------------------------------------------------------

\* the files the stages write, in the order the pipeline writes them
StageFiles ==
  << "00_ready.json", "01_inputs.json", "02_activate.json",
     "03_initial.json", "03_initial_status.json", "04_meta.json",
     "04_meta_status.json", "05_ultrai.json", "05_ultrai_status.json" >>

\* what a file of the run directory holds
content(dir, name) == IF name \in DOMAIN dir THEN dir[name] ELSE "absent"

\* the files for which path.exists() is true
existing(dir) == { name \in DOMAIN dir : dir[name] # "absent" }

\* open(path, "w") of the next file: it exists and is empty
OpenForWrite ==
  /\ writing = ""
  /\ \E i \in DOMAIN StageFiles :
       /\ content(disk, StageFiles[i]) = "absent"
       /\ \A j \in 1 .. i - 1 : content(disk, StageFiles[j]) = "complete"
       /\ disk' = (StageFiles[i] :> "partial") @@ disk
       /\ writing' = StageFiles[i]
  /\ UNCHANGED << served, logvars, progressvars >>
  /\ UNCHANGED << runvars, callvars, apivars, fnvars, roundvars >>

\* json.dump(...) and the end of the "with" block
JsonDump ==
  /\ writing # ""
  /\ disk' = [disk EXCEPT ![writing] = "complete"]
  /\ writing' = ""
  /\ UNCHANGED << served, logvars, progressvars >>
  /\ UNCHANGED << runvars, callvars, apivars, fnvars, roundvars >>

\* the event loop resumes another coroutine only when the running one is at
\* an "await", and no "await" lies between open() and the end of "with"
AtAwait == writing = ""

\* variant: the handler runs in a thread of its own
ServeArtifact_from_thread(artifact_name) ==
  /\ served' = [ fn |-> "/runs/{run_id}/artifacts/{artifact_name}",
                 seen |-> [ name \in {artifact_name} \cap existing(disk)
                              |-> disk[name] ] ]
  /\ UNCHANGED << disk, writing, logvars, progressvars >>
  /\ UNCHANGED << runvars, callvars, apivars, fnvars, roundvars >>

\* async def get_artifact: exists() and json.load of one file
ServeArtifact(artifact_name) ==
  /\ AtAwait
  /\ served' = [ fn |-> "/runs/{run_id}/artifacts/{artifact_name}",
                 seen |-> [ name \in {artifact_name} \cap existing(disk)
                              |-> disk[name] ] ]
  /\ UNCHANGED << disk, writing, logvars, progressvars >>
  /\ UNCHANGED << runvars, callvars, apivars, fnvars, roundvars >>

\* async def run_status: exists() of the stage artifacts and glob("*.json")
ServeStatus ==
  /\ AtAwait
  /\ served' = [ fn |-> "/runs/{run_id}/status",
                 seen |-> [ name \in existing(disk) |-> disk[name] ] ]
  /\ UNCHANGED << disk, writing, logvars, progressvars >>
  /\ UNCHANGED << runvars, callvars, apivars, fnvars, roundvars >>

StoreNext ==
  \/ OpenForWrite
  \/ JsonDump
  \/ \E artifact_name \in Range(StageFiles) : ServeArtifact(artifact_name)
  \/ ServeStatus

StoreSpec == Init /\ [][StoreNext]_vars

\* ------------------------------------------------------------------------
\* The event log of one run: _write_event and _rotate_events_if_needed
\* ------------------------------------------------------------------------

\* bound of the model: the events written to one log
MaxEvents == 5

\* the values of PROD_LOG_MAX_BYTES the server is started with; "0", the
\* default, turns the rotation off
MaxBytesChoices == 0 .. 3

\* the sizes of one JSONL line, in bytes
LineBytes == {1, 2}

\* log_path.stat().st_size
RECURSIVE st_size(_)
st_size(lines) ==
  IF lines = << >> THEN 0 ELSE Head(lines).bytes + st_size(Tail(lines))

\* _rotate_events_if_needed: events.1.log is unlinked if it exists, then
\* events.log is renamed to events.1.log
rotate_events_if_needed(log, rotated, limit) ==
  IF limit > 0 /\ log # << >> /\ st_size(log) > limit
  THEN [ log |-> << >>, rotated |-> log ]
  ELSE [ log |-> log, rotated |-> rotated ]

\* the environment the server runs in
SetEnv(limit) ==
  /\ emitted = 0
  /\ max_bytes # limit
  /\ max_bytes' = limit
  /\ UNCHANGED << events_log, events_rotated, emitted >>
  /\ UNCHANGED << storevars, progressvars >>
  /\ UNCHANGED << runvars, callvars, apivars, fnvars, roundvars >>

\* _write_event: the rotation, then open(log_path, "a") and one line
WriteEvent(bytes) ==
  /\ emitted < MaxEvents
  /\ LET after == rotate_events_if_needed(events_log, events_rotated,
                                          max_bytes)
         line  == [ id |-> emitted + 1, bytes |-> bytes ]
     IN /\ events_log' = Append(after.log, line)
        /\ events_rotated' = after.rotated
  /\ emitted' = emitted + 1
  /\ UNCHANGED max_bytes
  /\ UNCHANGED << storevars, progressvars >>
  /\ UNCHANGED << runvars, callvars, apivars, fnvars, roundvars >>

EventLogNext ==
  \/ \E limit \in MaxBytesChoices : SetEnv(limit)
  \/ \E bytes \in LineBytes : WriteEvent(bytes)

EventLogSpec == Init /\ [][EventLogNext]_vars

\* ------------------------------------------------------------------------
\* One stage function called on a run directory as it is found:
\* execute_initial_round, execute_meta_round, execute_ultrai_synthesis
\* ------------------------------------------------------------------------

\* the stage raised before it issued a request or wrote a file
StageFails(exception) ==
  [ raised |-> exception, model_calls |-> 0, written |-> {} ]

\* the stage issued its requests and returned
StageReturns(model_calls, written) ==
  [ raised |-> "", model_calls |-> model_calls, written |-> written ]

\* variant: neither the presence of the two artifacts nor the length of
\* activeList is checked
execute_initial_round_unchecked(dir) ==
  IF ~ dir.query \/ ~ dir.api_key
  THEN StageFails("InitialRoundError")
  ELSE StageReturns(dir.active_list_len,
                    {"03_initial.json", "03_initial_status.json"})

\* execute_initial_round up to the call of _execute_parallel_queries, which
\* turns every failure into a record, and the two files written after it
execute_initial_round(dir) ==
  IF \/ "02_activate.json" \notin dir.files
     \/ dir.active_list_len < InitialMinimum
     \/ "01_inputs.json" \notin dir.files
     \/ ~ dir.query
     \/ ~ dir.api_key
  THEN StageFails("InitialRoundError")
  ELSE StageReturns(dir.active_list_len,
                    {"03_initial.json", "03_initial_status.json"})

\* execute_meta_round: one request per model that succeeded in R1
execute_meta_round(dir) ==
  IF \/ "01_inputs.json" \notin dir.files
     \/ ~ dir.query
     \/ "03_initial.json" \notin dir.files
     \/ dir.succeeded_len < MetaMinimum
     \/ ~ dir.api_key
  THEN StageFails("MetaRoundError")
  ELSE StageReturns(dir.succeeded_len,
                    {"04_meta.json", "04_meta_status.json"})

\* execute_ultrai_synthesis: the checks, then the synthesis request, which
\* returns the text or exhausts its attempts
execute_ultrai_synthesis(dir) ==
  IF \/ "02_activate.json" \notin dir.files
     \/ dir.active_list_len < 2
     \/ "04_meta.json" \notin dir.files
     \/ dir.meta_len = 0
     \/ "01_inputs.json" \notin dir.files
     \/ ~ dir.query
     \/ ~ dir.api_key
  THEN StageFails("UltraiSynthesisError")
  ELSE IF dir.gateway_ok
  THEN StageReturns(1, {"05_ultrai.json", "05_ultrai_status.json"})
  ELSE [ raised |-> "UltraiSynthesisError", model_calls |-> 1,
         written |-> {} ]

\* the lengths of a list read from an artifact: too short and long enough
ListLengths == {0, 1, 3}

\* the run directories execute_initial_round is called on
InitialDirs ==
  [ files : SUBSET {"01_inputs.json", "02_activate.json"},
    active_list_len : ListLengths, query : BOOLEAN, api_key : BOOLEAN ]

\* the run directories execute_meta_round is called on
MetaDirs ==
  [ files : SUBSET {"01_inputs.json", "03_initial.json"},
    succeeded_len : ListLengths, query : BOOLEAN, api_key : BOOLEAN ]

\* the run directories execute_ultrai_synthesis is called on
SynthesisDirs ==
  [ files : SUBSET {"01_inputs.json", "02_activate.json", "04_meta.json"},
    active_list_len : ListLengths \ {0}, meta_len : ListLengths \ {1},
    query : {TRUE}, api_key : BOOLEAN, gateway_ok : BOOLEAN ]

ExecuteInitialRound(dir) ==
  /\ fn_args' = [ fn |-> "execute_initial_round", dir |-> dir ]
  /\ fn_return' = execute_initial_round(dir)
  /\ UNCHANGED << runvars, callvars, apivars, roundvars, servervars >>

ExecuteMetaRound(dir) ==
  /\ fn_args' = [ fn |-> "execute_meta_round", dir |-> dir ]
  /\ fn_return' = execute_meta_round(dir)
  /\ UNCHANGED << runvars, callvars, apivars, roundvars, servervars >>

ExecuteUltraiSynthesis(dir) ==
  /\ fn_args' = [ fn |-> "execute_ultrai_synthesis", dir |-> dir ]
  /\ fn_return' = execute_ultrai_synthesis(dir)
  /\ UNCHANGED << runvars, callvars, apivars, roundvars, servervars >>

StageNext ==
  \/ \E dir \in InitialDirs : ExecuteInitialRound(dir)
  \/ \E dir \in MetaDirs : ExecuteMetaRound(dir)
  \/ \E dir \in SynthesisDirs : ExecuteUltraiSynthesis(dir)

StageSpec == Init /\ [][StageNext]_vars

\* ------------------------------------------------------------------------
\* The overall percentage of one run: the _update_progress calls of
\* _orchestrate_pipeline, of its round callbacks and of its error handler
\* ------------------------------------------------------------------------

\* the percentages of the _update_progress calls in the body of the "try",
\* in order
Milestones ==
  << 3, 7, 10, 12, 15, 17, 20, 23, 27, 30, 60, 63, 65, 85, 87, 90, 95, 97,
     99, 100 >>

\* the stage called right after a milestone, by the milestone's index
StageAt ==
  (3 :> "readiness") @@ (5 :> "inputs") @@ (7 :> "activate") @@
  (10 :> "R1") @@ (13 :> "R2") @@ (16 :> "R3") @@ (18 :> "statistics")

\* percent_within_r3 of the progress_callback calls of R3, in order
SynthesisPhases == << 0, 20, 40, 60, 80 >>

\* the values of "total" a round passes to its callback: len(active_list)
CallbackTotals(stage) ==
  CASE stage = "R1" -> {3}
    [] stage = "R2" -> {2, 3}
    [] stage = "R3" -> {Len(SynthesisPhases)}
    [] OTHER -> {0}

\* variant: the percentage of a callback is not offset by the round's base
callback_percent_without_base(stage, completed, total) ==
  IF stage = "R1" THEN (completed * 30) \div total
  ELSE (completed * 20) \div total

\* r1_progress: 30 + int((completed / total) * 30);
\* r2_progress: 65 + int((completed / total) * 20)
callback_percent(stage, completed, total) ==
  IF stage = "R1" THEN 30 + (completed * 30) \div total
  ELSE 65 + (completed * 20) \div total

\* r3_progress: 90 + int(percent_within_r3 * 0.05)
synthesis_percent(percent_within_r3) == 90 + (percent_within_r3 * 5) \div 100

\* the next _update_progress call of the body, and the call of the stage
\* that follows it; after the last one the pipeline has completed
Milestone ==
  /\ progress_pc \in { "idle", "running" }
  /\ position < Len(Milestones)
  /\ position' = position + 1
  /\ percentage' = Milestones[position + 1]
  /\ updates' = Append(updates, Milestones[position + 1])
  /\ IF position + 1 \in DOMAIN StageAt
     THEN /\ progress_pc' = "stage"
          /\ callback_total' \in CallbackTotals(StageAt[position + 1])
          /\ callback_count' = 0
     ELSE /\ progress_pc' = IF position + 1 = Len(Milestones)
                            THEN "completed" ELSE "running"
          /\ UNCHANGED << callback_total, callback_count >>
  /\ UNCHANGED << storevars, logvars >>
  /\ UNCHANGED << runvars, callvars, apivars, fnvars, roundvars >>

\* a slot of R1 or R2 is counted; the callback is made if it has a response
SlotCompletes(success) ==
  /\ progress_pc = "stage"
  /\ StageAt[position] \in { "R1", "R2" }
  /\ callback_count < callback_total
  /\ callback_count' = callback_count + 1
  /\ LET percent == callback_percent(StageAt[position], callback_count + 1,
                                     callback_total)
     IN IF success
        THEN /\ percentage' = percent
             /\ updates' = Append(updates, percent)
        ELSE UNCHANGED << percentage, updates >>
  /\ UNCHANGED << position, progress_pc, callback_total >>
  /\ UNCHANGED << storevars, logvars >>
  /\ UNCHANGED << runvars, callvars, apivars, fnvars, roundvars >>

\* the next progress_callback call of execute_ultrai_synthesis
SynthesisPhase ==
  /\ progress_pc = "stage"
  /\ StageAt[position] = "R3"
  /\ callback_count < callback_total
  /\ callback_count' = callback_count + 1
  /\ percentage' = synthesis_percent(SynthesisPhases[callback_count + 1])
  /\ updates' = Append(updates, percentage')
  /\ UNCHANGED << position, progress_pc, callback_total >>
  /\ UNCHANGED << storevars, logvars >>
  /\ UNCHANGED << runvars, callvars, apivars, fnvars, roundvars >>

\* the stage returned to the orchestrator
AwaitReturns ==
  /\ progress_pc = "stage"
  /\ callback_count = callback_total
  /\ StageAt[position] = "statistics" =>
       ~ CallRaisesTypeError(OrchestratorStatisticsArguments,
                             GenerateStatisticsParameters)
  /\ progress_pc' = "running"
  /\ UNCHANGED << position, percentage, callback_total, callback_count,
                  updates >>
  /\ UNCHANGED << storevars, logvars >>
  /\ UNCHANGED << runvars, callvars, apivars, fnvars, roundvars >>

\* the stage raised: R1 and R2 before their first task, R3 after its first
\* callback and before it writes; "except Exception" of the orchestrator
\* calls _update_progress(run_id, "Error: ...", 0)
AwaitRaises ==
  /\ progress_pc = "stage"
  /\ StageAt[position] \in { "R1", "R2" } => callback_count = 0
  /\ StageAt[position] = "R3" =>
       callback_count \in 1 .. callback_total - 1
  /\ progress_pc' = "failed"
  /\ percentage' = 0
  /\ updates' = Append(updates, 0)
  /\ UNCHANGED << position, callback_total, callback_count >>
  /\ UNCHANGED << storevars, logvars >>
  /\ UNCHANGED << runvars, callvars, apivars, fnvars, roundvars >>

ProgressNext ==
  \/ Milestone
  \/ \E success \in BOOLEAN : SlotCompletes(success)
  \/ SynthesisPhase
  \/ AwaitReturns
  \/ AwaitRaises

ProgressSpec == Init /\ [][ProgressNext]_vars

\* ------------------------------------------------------------------------
\* Specification
\* ------------------------------------------------------------------------

Slots == 1 .. 3

Next ==
  \/ \E c \in ValidCocktails : StartRun(c)
  \/ \E S \in ReadyChoices(cocktail) : CheckSystemReadiness(S)
  \/ ReadinessGatewayFails
  \/ CollectUserInputs
  \/ PrepareActiveLLMs
  \/ InitialStart
  \/ \E i \in Slots : PrimaryReturns(i)
  \/ \E i \in Slots, kind \in CallErrors : PrimaryRaises(i, kind)
  \/ \E i \in Slots : BackupReturns(i)
  \/ \E i \in Slots, kind \in CallErrors : BackupRaises(i, kind)
  \/ InitialFinish
  \/ MetaStart
  \/ \E i \in Slots : MetaTaskReturns(i)
  \/ \E i \in Slots, kind \in CallErrors : MetaTaskRaises(i, kind)
  \/ MetaFinish
  \/ SynthesisReturns
  \/ \E kind \in CallErrors : SynthesisRaises(kind)
  \/ GenerateStatistics

Spec == Init /\ [][Next]_vars


\* ------------------------------------------------------------------------
\* Properties
\* ------------------------------------------------------------------------

ModelIds(records) == { records[i].model : i \in DOMAIN records }

NoDuplicates(s) == \A i, j \in DOMAIN s : s[i] = s[j] => i = j

SucceededIds(records) ==
  { records[i].model : i \in { k \in DOMAIN records : ~ records[k].error } }

\* the slots whose backup answered, their primaries and those backups
SlotsViaBackup == { i \in DOMAIN slot : slot[i] = "backup_ok" }
ReplacedPrimaries == { activate.activeList[i] : i \in SlotsViaBackup }
BackupsUsed == { backup_requested[i] : i \in SlotsViaBackup }

\* the slots whose primary request raised
SlotsPrimaryFailed ==
  { i \in DOMAIN slot : slot[i] \in {"backup", "backup_ok", "error"} }

\* the READY models of the run's cocktail (PRIMARY and FALLBACK)
ReadyOfCocktail ==
  IF cocktail \in ValidCocktails
  THEN ready_list \cap CocktailUnion(cocktail) ELSE {}

C2_CompletedXorFailed ==
  ~ ("05_ultrai.json" \in files /\ "error.txt" \in files)

\* C3: 03_initial.json holds exactly one record per PRIMARY slot, i.e.
\* |activeList| records, and no model id occurs in two records; while R1
\* runs, every finished slot has appended exactly one record.
C3_OneRecordPerSlot ==
  /\ pc = "r1_run" =>
        Len(responses) = Cardinality({ i \in DOMAIN slot : slot[i] \in SlotDone })
  /\ "03_initial.json" \in files =>
        /\ Len(initial) = Len(activate.activeList)
        /\ NoDuplicates([ i \in DOMAIN initial |-> initial[i].model ])

\* R1 finished with one slot answered by its backup and one slot failed
C3_Witness ==
  /\ "03_initial.json" \in files
  /\ \E i \in DOMAIN slot : slot[i] = "backup_ok"
  /\ \E i \in DOMAIN slot : slot[i] = "error"

\* C4 as stated: the model ids of 03_initial.json are activeList united
\* with the backups used as replacements.
C4_IdsAreActivePlusBackups ==
  "03_initial.json" \in files =>
     ModelIds(initial) = Range(activate.activeList) \cup BackupsUsed

\* C4 amended: the model ids of 03_initial.json are activeList with every
\* primary whose backup answered replaced by that backup.
C4_IdsAreActiveWithReplacements ==
  "03_initial.json" \in files =>
     ModelIds(initial) =
        (Range(activate.activeList) \ ReplacedPrimaries) \cup BackupsUsed

\* R1 finished and some slot was answered by its backup
C4_Witness ==
  /\ "03_initial.json" \in files
  /\ SlotsViaBackup # {}
  /\ \E i \in DOMAIN slot : slot[i] = "ok"

\* C5 as stated: failed_models lists no model whose slot ended in success,
\* directly or through its backup.
C5_FailedSlotNeverSucceeded ==
  \A i \in DOMAIN slot :
     slot[i] \in {"ok", "backup_ok"} =>
        activate.activeList[i] \notin Range(failed_models)

\* C5 amended: failed_models lists exactly the primaries whose own request
\* failed, once each, whether or not the backup then filled the slot.
C5_FailedAreFailedPrimaries ==
  /\ Range(failed_models) = { activate.activeList[i] : i \in SlotsPrimaryFailed }
  /\ NoDuplicates(failed_models)

\* a primary failed, its backup answered, another primary answered itself
C5_Witness ==
  /\ pc = "r2"
  /\ SlotsViaBackup # {}
  /\ \E i \in DOMAIN slot : slot[i] = "ok"
  /\ failed_models # << >>

\* C6: no id of failed_models is the model of a successful (error = false)
\* record of the same R1 output.
C6_FailedNotSuccessful ==
  /\ Range(failed_models) \cap SucceededIds(responses) = {}
  /\ "03_initial.json" \in files =>
        Range(failed_models) \cap SucceededIds(initial) = {}

\* R1 wrote its output with failed models and successful records
C6_Witness ==
  /\ "03_initial.json" \in files
  /\ Len(failed_models) >= 2
  /\ SucceededIds(initial) # {}
  /\ BackupsUsed # {}

\* C7: the backup requested for slot i is the cocktail's FALLBACK[i].
C7_BackupIsAlignedFallback ==
  \A i \in DOMAIN backup_requested :
     backup_requested[i] # NoModel =>
        backup_requested[i] = FALLBACK_MODELS[cocktail][i]

C9_InsufficientPeers ==
  ("03_initial.json" \in files /\ Cardinality(SucceededIds(initial)) < 2) =>
     /\ meta_requests = {}
     /\ "04_meta.json" \notin files
     /\ pc # "r2" =>
           /\ pc = "failed"
           /\ error = "MetaRoundError"
           /\ "error.txt" \in files

\* R2 refused an R1 output of one success and two error records
C9_Witness ==
  /\ pc = "failed"
  /\ error = "MetaRoundError"
  /\ Cardinality(SucceededIds(initial)) = 1
  /\ Cardinality({ i \in DOMAIN initial : initial[i].error }) = 2

C11_StatusAfterActivationFailure ==
  (pc = "failed" /\ error = "ActiveLLMError") =>
     /\ run_status(files).phase = "00_ready.json"
     /\ ~ run_status(files).completed

\* C11 amended: after a run failed in activation, the status endpoint
\* answers phase "01_inputs.json" (the highest artifact present) and
\* completed false.
C11_StatusAfterActivationFailureInputs ==
  (pc = "failed" /\ error = "ActiveLLMError") =>
     /\ run_status(files).phase = "01_inputs.json"
     /\ ~ run_status(files).completed

\* activation refused the run and the status endpoint has a phase to show
C11_Witness ==
  /\ pc = "failed"
  /\ error = "ActiveLLMError"
  /\ run_status(files).phase # NoPhase
  /\ "error.txt" \in files

\* C12: the statistics step never fails a run: once R3 has written
\* 05_ultrai.json and the statistics call was made, stats.json is written,
\* error.txt is not, and the run is past statistics.
C12_StatisticsNeverFails ==
  ("05_ultrai.json" \in files /\ pc # "stats") =>
     /\ "stats.json" \in files
     /\ "error.txt" \notin files
     /\ pc = "completed"

\* the artifact, the position and the exception of each round
RoundArtifact(r) ==
  CASE r = "R1" -> "03_initial.json"
    [] r = "R2" -> "04_meta.json"
    [] r = "R3" -> "05_ultrai.json"
RoundRunning(r) ==
  CASE r = "R1" -> "r1_run"
    [] r = "R2" -> "r2_run"
    [] r = "R3" -> "r3"
RoundError(r) ==
  CASE r = "R1" -> "InitialRoundError"
    [] r = "R2" -> "MetaRoundError"
    [] r = "R3" -> "UltraiSynthesisError"
Rounds == {"R1", "R2", "R3"}

\* C13: a 401 or 402 answer to a model call of R1, R2 or R3 fails that
\* round and the run: the round writes no artifact and, once it is left,
\* the run has failed with that round's error.
C13_CredentialErrorFailsRun ==
  \A r \in Rounds :
     << r, "credential" >> \in gateway_errors =>
        /\ RoundArtifact(r) \notin files
        /\ pc # RoundRunning(r) => (pc = "failed" /\ error = RoundError(r))

\* C14: a transient failure that exhausted its retries never fails the
\* round it happened in: the run never fails with that round's error.
C14_TransientErrorNeverFailsRound ==
  \A r \in Rounds :
     << r, "transient" >> \in gateway_errors => error # RoundError(r)

\* the stage artifacts in pipeline order
StageArtifacts ==
  << "00_ready.json", "01_inputs.json", "02_activate.json",
     "03_initial.json", "04_meta.json", "05_ultrai.json" >>

FirstArtifacts(k) == { StageArtifacts[i] : i \in 1 .. k }

\* the number of stages that have finished when the pipeline is at pc
StagesFinished ==
  CASE pc \in {"idle", "readiness"} -> 0
    [] pc = "inputs" -> 1
    [] pc = "activate" -> 2
    [] pc \in {"r1", "r1_run"} -> 3
    [] pc \in {"r2", "r2_run"} -> 4
    [] pc = "r3" -> 5
    [] OTHER -> 6

\* C18: the stage artifacts present are a prefix of 00_ready .. 05_ultrai,
\* and while stage k+1 runs exactly the artifacts of stages 0..k exist.
C18_ArtifactsArePrefix ==
  /\ \E k \in 0 .. Len(StageArtifacts) :
        files \cap Range(StageArtifacts) = FirstArtifacts(k)
  /\ pc # "failed" =>
        files \cap Range(StageArtifacts) = FirstArtifacts(StagesFinished)

\* R2 is running on the four artifacts of the stages before it
C18_Witness ==
  /\ pc = "r2_run"
  /\ files \cap Range(StageArtifacts) = FirstArtifacts(4)
  /\ \E i \in DOMAIN gathered : gathered[i] = "result"

C22_NeutralFromActiveList ==
  "05_ultrai.json" \in files =>
    LET active == Range(activate.activeList)
        hits == { i \in DOMAIN PREFERRED_ULTRA : PREFERRED_ULTRA[i] \in active }
    IN /\ ultrai.model \in active
       /\ \A i \in hits :
            (\A j \in hits : i <= j) => ultrai.model = PREFERRED_ULTRA[i]
       /\ hits = {} => ultrai.model = activate.activeList[1]
       /\ ultrai.active_count = Len(activate.activeList)
       /\ ultrai.meta_count = Len(meta)

\* a synthesis whose activeList holds a preferred model that is not its
\* first entry, over fewer R2 records than ACTIVE models
C22_Witness ==
  /\ "05_ultrai.json" \in files
  /\ ultrai.model \in Range(PREFERRED_ULTRA)
  /\ ultrai.model # activate.activeList[1]
  /\ ultrai.meta_count < ultrai.active_count

\* a synthesis whose activeList holds no preferred model
C22_WitnessFallback ==
  /\ "05_ultrai.json" \in files
  /\ ultrai.model \notin Range(PREFERRED_ULTRA)

RateLimitSleeps == { k \in DOMAIN sleeps : sleeps[k].after = "429" }

\* C15: at every call site, the wait after a 429 response is at most 10
\* seconds and the call is retried at most once after a 429.
C15_RateLimitWaitCapped ==
  /\ \A k \in RateLimitSleeps : sleeps[k].seconds <= 10
  /\ Cardinality(RateLimitSleeps) <= 1


\* ------------------------------------------------------------------------
\* Properties of the API server across runs (ApiSpec)
\* ------------------------------------------------------------------------

\* C16: a POST /runs that is answered 400 (empty query, cocktail outside
\* the accepted names, missing credential) changes nothing: no run
\* directory or event log is created or written, no progress tracker entry
\* is added and no pipeline task is scheduled.
C16_RejectedStartChangesNothing ==
  [][ (last_response'.request # last_response.request
       /\ last_response'.status = 400)
      => UNCHANGED << run_dirs, tasks, progress_tracker >> ]_vars

\* a request with a valid query and cocktail was rejected for the missing
\* credential while an earlier run is in progress
C16_Witness ==
  /\ last_response.status = 400
  /\ last_response.detail = "Missing OPENROUTER_API_KEY"
  /\ tasks # << >>
  /\ progress_tracker # {}

\* C17: any two accepted POST /runs requests receive distinct run ids, so
\* no two pipelines write into the same run directory.
C17_RunIdsDistinct ==
  \A i, j \in DOMAIN tasks : i # j => tasks[i].run_id # tasks[j].run_id

\* C19: a pipeline never executes a stage whose artifact is already
\* present in its run directory; execution of a run directory that already
\* holds artifacts continues from the first missing one.
C19_NoStageReExecuted ==
  [][ \A t \in DOMAIN tasks :
        (t \in DOMAIN tasks' /\ tasks'[t].at = tasks[t].at + 1)
        => PipelineArtifacts[tasks'[t].at]
             \notin DirFiles(run_dirs, tasks[t].run_id) ]_vars


\* ------------------------------------------------------------------------
\* Properties of the status endpoint (StatusSpec)
\* ------------------------------------------------------------------------

\* the number an artifact name starts with
ArtifactNumber(name) ==
  CASE name = "00_ready.json" -> 0
    [] name = "01_inputs.json" -> 1
    [] name = "02_activate.json" -> 2
    [] name = "03_initial.json" -> 3
    [] name = "04_meta.json" -> 4
    [] name = "05_ultrai.json" -> 5
    [] name = "06_final.json" -> 6

StatusAnswered == fn_args.fn = "run_status"

\* C21: the status answer reports as phase the highest-numbered stage
\* artifact present in the run directory (none when there is none); round R1
\* is reported only with 03_initial.json present and 04_meta.json absent, R2
\* only with 04_meta.json present and 05_ultrai.json absent, R3 only with
\* 05_ultrai.json present, no round only when all three are absent, and when
\* the phase is one of these three artifacts and every earlier one is
\* present the round is that artifact's; completed is true exactly when
\* 05_ultrai.json or 06_final.json is present.
C21_StatusFromArtifacts ==
  StatusAnswered =>
    LET dir == fn_args.dir_files
        present == dir \cap Range(ordered)
        RoundOf == [ a \in { "03_initial.json", "04_meta.json",
                             "05_ultrai.json" } |->
                     CASE a = "03_initial.json" -> "R1"
                       [] a = "04_meta.json" -> "R2"
                       [] a = "05_ultrai.json" -> "R3" ]
    IN /\ IF present = {}
          THEN fn_return.phase = NoPhase
          ELSE /\ fn_return.phase \in present
               /\ \A a \in present :
                    ArtifactNumber(a) <= ArtifactNumber(fn_return.phase)
       /\ fn_return.round = "R1" =>
            "03_initial.json" \in dir /\ "04_meta.json" \notin dir
       /\ fn_return.round = "R2" =>
            "04_meta.json" \in dir /\ "05_ultrai.json" \notin dir
       /\ fn_return.round = "R3" => "05_ultrai.json" \in dir
       /\ fn_return.round \notin { "R1", "R2", "R3" } =>
            dir \cap DOMAIN RoundOf = {}
       /\ ( /\ fn_return.phase \in DOMAIN RoundOf
            /\ \A a \in Range(ordered) :
                 ArtifactNumber(a) <= ArtifactNumber(fn_return.phase)
                 => a \in dir )
          => fn_return.round = RoundOf[fn_return.phase]
       /\ fn_return.completed <=>
            ( "05_ultrai.json" \in dir \/ "06_final.json" \in dir )

\* the status of a run whose synthesis artifact is present and whose final
\* artifact is absent
C21_Witness ==
  /\ StatusAnswered
  /\ "05_ultrai.json" \in fn_args.dir_files
  /\ "06_final.json" \notin fn_args.dir_files
  /\ fn_return.completed
  /\ fn_return.phase = "05_ultrai.json"
  /\ fn_return.round = "R3"


\* ------------------------------------------------------------------------
\* Properties of the synthesis timeout (MetaContextSpec, TimeoutSpec)
\* ------------------------------------------------------------------------

\* C23: the per-draft cap recorded by R3 follows the bucket of the
\* preliminary timeout (180 s gives 2000, 120 s gives 1200, 90 s gives 800,
\* otherwise 500), and a META context of 4500 characters across 4 drafts is
\* recorded with timeout 144 and max_chars_per_draft 1200.
C23_DraftCapFollowsTimeout ==
  fn_args.fn = "execute_ultrai_synthesis" =>
    /\ fn_return.max_chars_per_draft =
         ( IF fn_return.timeout_prelim >= 180 THEN 2000
           ELSE IF fn_return.timeout_prelim >= 120 THEN 1200
           ELSE IF fn_return.timeout_prelim >= 90 THEN 800
           ELSE 500 )
    /\ ( fn_return.context_length = 4500 /\ fn_return.num_meta_drafts = 4 )
       => ( fn_return.timeout = 144 /\ fn_return.max_chars_per_draft = 1200 )

\* C24: calculate_synthesis_timeout does not decrease when the context
\* grows and the draft count stays, is at least as large for four or more
\* drafts as for fewer than four on the same context, and always lies in
\* [60, 300].
C24_TimeoutMonotoneAndClamped ==
  /\ [](fn_args.fn = "calculate_synthesis_timeout"
         => fn_return >= 60 /\ fn_return <= 300)
  /\ [][ ( /\ fn_args.fn = "calculate_synthesis_timeout"
           /\ fn_args'.fn = "calculate_synthesis_timeout" )
         => /\ ( /\ fn_args.num_meta_drafts = fn_args'.num_meta_drafts
                 /\ fn_args.context_len <= fn_args'.context_len )
               => fn_return <= fn_return'
            /\ ( /\ fn_args.context_len = fn_args'.context_len
                 /\ fn_args.num_meta_drafts < 4
                 /\ fn_args'.num_meta_drafts >= 4 )
               => fn_return <= fn_return' ]_vars

\* the timeout of a long context with four drafts, above that of three
C24_Witness ==
  /\ fn_args.fn = "calculate_synthesis_timeout"
  /\ fn_args.context_len = 4500
  /\ fn_args.num_meta_drafts = 4
  /\ fn_return = 144


\* ------------------------------------------------------------------------
\* Properties of the run directory paths (PathSpec)
\* ------------------------------------------------------------------------

\* C26: for every string, _build_runs_dir either fails or returns a path
\* that is a proper descendant of the resolved runs base, whatever symbolic
\* links the runs directory holds.
C26_RunDirInsideBase ==
  ( fn_args.fn = "_build_runs_dir" /\ fn_return.status = 200 ) =>
    LET base == get_safe_runs_base(fn_args.links)
    IN /\ Len(fn_return.path) > Len(base)
       /\ \A i \in DOMAIN base : fn_return.path[i] = base[i]
       /\ \A i \in DOMAIN fn_return.path : fn_return.path[i] # OutsideDir

\* a run id made of safe characters was resolved to its directory under the
\* runs base
C26_Witness ==
  /\ fn_args.fn = "_build_runs_dir"
  /\ fn_args.run_id = << "a", "-", "a" >>
  /\ fn_return.status = 200
  /\ fn_return.path = << AppDir, RunsDir, << "a", "-", "a" >> >>

\* a run id whose directory is a symbolic link out of the runs base was
\* refused
C26_WitnessLink ==
  /\ fn_args.fn = "_build_runs_dir"
  /\ fn_args.run_id = << "a" >>
  /\ fn_args.links # NoLinks
  /\ fn_return.status = 400


\* the routes that take a run id from the URL
Endpoints ==
  { "/runs/{run_id}/status", "/runs/{run_id}/artifacts",
    "/runs/{run_id}/artifacts/{artifact_name}", "/runs/{run_id}/error",
    "/runs/{run_id}/events" }

\* C27: every endpoint that takes a run id or an artifact name refuses a
\* run id that is not a non-empty string of [A-Za-z0-9_-] before it accesses
\* the file system, and every path it accesses is the directory of that run
\* or lies inside it.
C27_EndpointsSanitize ==
  fn_args.fn \in Endpoints =>
    LET run_dir == Cwd \o << RunsDir, fn_args.run_id >>
    IN /\ ( \E i \in DOMAIN fn_args.run_id :
               fn_args.run_id[i] \notin SafeChars )
          => ( fn_return.status = 400 /\ fn_return.touched = {} )
       /\ \A path \in fn_return.touched : relative_to(path, run_dir)


\* ------------------------------------------------------------------------
\* Properties of one round with its tasks (RoundSpec)
\* ------------------------------------------------------------------------

InFlight == { i \in DOMAIN worker : worker[i].pc = "in_flight" }

RoundFinished ==
  /\ round_args.round # ""
  /\ \A i \in DOMAIN worker : worker[i].pc \in { "done_ok", "done_error" }

\* C28: within R1 and within R2 the semaphore width is the number of models
\* when there are no attachments, 2 for 1 to 3 attachments and 1 for 4 or
\* more, and the number of gateway requests in flight never exceeds it,
\* backup requests and retries included.
C28_InFlightWithinWidth ==
  round_args.round # "" =>
    /\ semaphore.limit =
         ( IF round_args.attachment_count = 0 THEN round_args.total_count
           ELSE IF round_args.attachment_count <= 3 THEN 2
           ELSE 1 )
    /\ Cardinality(InFlight) <= semaphore.limit

\* as many requests in flight as the width allows, one of them a retry or a
\* backup request, while another task waits for a permit
C28_Witness ==
  /\ round_args.round = "R1"
  /\ semaphore.limit < round_args.total_count
  /\ Cardinality(InFlight) = semaphore.limit
  /\ \E i \in InFlight : worker[i].on_backup \/ worker[i].attempt > 0
  /\ \E i \in DOMAIN worker : worker[i].pc = "ready"

\* the slots progress_callback was called for
CalledSlots == { callbacks[k].model : k \in DOMAIN callbacks }

C30_PrepopulatedStepsComplete ==
  round_args.round # "" =>
    \A k \in DOMAIN steps :
      steps[k].text = PendingText(round_args.round) =>
        /\ steps[k].model \in CalledSlots => steps[k].status = "completed"
        /\ RoundFinished => steps[k].status # "pending"

\* ------------------------------------------------------------------------
\* Properties of the cocktail tables
\* ------------------------------------------------------------------------

C33_NoEventLineLost ==
  /\ \A id \in 1 .. emitted :
       \E line \in Range(events_log) \cup Range(events_rotated) :
         line.id = id
  /\ Len(events_log) + Len(events_rotated) = emitted

\* ------------------------------------------------------------------------
\* Properties of the stage functions (StageSpec)
\* ------------------------------------------------------------------------

\* the artifact of the stage before, and the error and the files of a stage
StageContract ==
  [ execute_initial_round |->
      [ predecessor |-> "02_activate.json", exception |-> "InitialRoundError",
        output |-> {"03_initial.json", "03_initial_status.json"} ],
    execute_meta_round |->
      [ predecessor |-> "03_initial.json", exception |-> "MetaRoundError",
        output |-> {"04_meta.json", "04_meta_status.json"} ],
    execute_ultrai_synthesis |->
      [ predecessor |-> "04_meta.json", exception |-> "UltraiSynthesisError",
        output |-> {"05_ultrai.json", "05_ultrai_status.json"} ] ]

\* C34: R1, R2 or R3 called on a run whose predecessor artifact is missing
\* raises its stage error before any model call and writes neither its
\* output artifact nor its status artifact.
C34_MissingPredecessorFailsEarly ==
  fn_args.fn \in DOMAIN StageContract =>
    LET stage == StageContract[fn_args.fn]
    IN stage.predecessor \notin fn_args.dir.files =>
         /\ fn_return.raised = stage.exception
         /\ fn_return.model_calls = 0
         /\ fn_return.written \cap stage.output = {}

\* R2 called on a directory that lacks 03_initial.json only, with a query
\* and a key that would let it run
C34_Witness ==
  /\ fn_args.fn = "execute_meta_round"
  /\ fn_args.dir.files = {"01_inputs.json"}
  /\ fn_args.dir.succeeded_len = 3
  /\ fn_args.dir.query /\ fn_args.dir.api_key
  /\ fn_return.raised = "MetaRoundError"

\* R1 called on a directory that lacks 02_activate.json only
C34_WitnessInitial ==
  /\ fn_args.fn = "execute_initial_round"
  /\ fn_args.dir.files = {"01_inputs.json"}
  /\ fn_args.dir.query /\ fn_args.dir.api_key
  /\ fn_return.raised = "InitialRoundError"

\* ------------------------------------------------------------------------
\* Properties of the attempts of one round (RoundSpec)
\* ------------------------------------------------------------------------

WorkerDone == { "done_ok", "done_error" }

\* C35: a model call of R1 or R2 makes at most PRIMARY_ATTEMPTS requests, a
\* slot at most twice as many (its primary, then its backup), and the round
\* ends with a result for every slot: while a slot has no result a step of
\* the round can be taken, and when none is left every slot was counted.
C35_AttemptsBounded ==
  round_args # NoRound =>
    /\ \A i \in DOMAIN worker :
         /\ worker[i].attempt + 1 <= PRIMARY_ATTEMPTS
         /\ worker[i].posts <= 2 * PRIMARY_ATTEMPTS
         /\ ~ worker[i].on_backup => worker[i].posts <= PRIMARY_ATTEMPTS
         /\ round_args.round = "R2" => worker[i].posts <= PRIMARY_ATTEMPTS
    /\ (\E i \in DOMAIN worker : worker[i].pc \notin WorkerDone)
         => ENABLED RoundNext
    /\ (\A i \in DOMAIN worker : worker[i].pc \in WorkerDone)
         => round_completed = round_args.total_count

\* an R1 slot that used every attempt: two requests for its primary, two
\* for its backup, and an error record at the end
C35_Witness ==
  /\ round_args # NoRound
  /\ round_args.round = "R1"
  /\ \E i \in DOMAIN worker :
       /\ worker[i].posts = 2 * PRIMARY_ATTEMPTS
       /\ worker[i].pc = "done_error"
  /\ \A i \in DOMAIN worker : worker[i].pc \in WorkerDone

\* ------------------------------------------------------------------------
\* Properties of the activation and of R3 (Spec)
\* ------------------------------------------------------------------------

\* the READY models of the run's cocktail, PRIMARY and FALLBACK together
ReadyInCocktail == ready_list \cap CocktailUnion(cocktail)

\* prepare_active_llms was called and has returned or raised
ActivationEnded ==
  /\ "01_inputs.json" \in files
  /\ pc \notin { "idle", "readiness", "inputs", "activate" }

C36_WitnessFailure ==
  /\ ActivationEnded
  /\ Cardinality(ReadyInCocktail) = 2
  /\ error = "ActiveLLMError"

\* the models with an error record
FailedIds(records) ==
  { records[i].model : i \in { k \in DOMAIN records : records[k].error } }

\* C37 as the claim states it: the neutral model of 05_ultrai.json always
\* has a non-error record in 04_meta.json.
C37_NeutralIsLiveParticipant ==
  "05_ultrai.json" \in files => ultrai.model \in SucceededIds(meta)

\* C37: the neutral model is a member of activeList of 02_activate.json,
\* live in R2 or not: when it has no non-error record in 04_meta.json it is
\* a primary that its backup replaced, or a model with an error record in
\* 03_initial.json or in 04_meta.json.
C37_NeutralIsActiveLiveOrNot ==
  "05_ultrai.json" \in files =>
    /\ ultrai.model \in Range(activate.activeList)
    /\ ultrai.model \notin SucceededIds(meta) =>
         ultrai.model \in
           ReplacedPrimaries \cup FailedIds(initial) \cup FailedIds(meta)

\* a synthesis by a primary that failed in R1 and was replaced by its
\* backup: the neutral model has no record in 04_meta.json at all
C37_Witness ==
  /\ "05_ultrai.json" \in files
  /\ ultrai.model \in ReplacedPrimaries
  /\ ultrai.model \notin ModelIds(meta)

\* C38: R3 issues its synthesis call and writes 05_ultrai.json only if some
\* record of 04_meta.json is not an error record; a run whose R2 records
\* are all errors is never completed.
C38_SynthesisNeedsLiveDraft ==
  "05_ultrai.json" \in files => SucceededIds(meta) # {}

\* ------------------------------------------------------------------------
\* Properties of the overall percentage (ProgressSpec)
\* ------------------------------------------------------------------------

\* C39 as the claim states it: the percentage lies in 0..100 and no tracker
\* update lowers it, whether the run succeeds or fails.
C39_PercentageNeverDecreases ==
  [][ percentage' \in 0 .. 100 /\ percentage' >= percentage ]_vars

\* C39: the percentage lies in 0..100 and no tracker update lowers it while
\* the run has not failed; the update of the error handler sets it to 0.
C39_PercentageRisesUntilFailure ==
  /\ [](percentage \in 0 .. 100)
  /\ [][ progress_pc' # "failed" => percentage' >= percentage ]_vars
  /\ [][ progress_pc # "failed" /\ progress_pc' = "failed"
           => percentage' = 0 ]_vars

\* a run that failed in R3 after the callbacks of R1 and R2 and two phases
\* of R3 had raised the percentage
C39_Witness ==
  /\ progress_pc = "failed"
  /\ percentage = 0
  /\ StageAt[position] = "R3"
  /\ callback_count >= 2

\* the task has left the running state with 05_ultrai.json or error.txt in
\* its run directory
TaskEnded(t) ==
  /\ t \in DOMAIN tasks
  /\ tasks[t].status \notin {"scheduled", "running"}
  /\ ({"05_ultrai.json", "error.txt"}
        \cap DirFiles(run_dirs, tasks[t].run_id)) # {}

C40_WitnessFailure ==
  /\ Len(tasks) = 1
  /\ TaskEnded(1)
  /\ tasks[1].at = 0

====
